---- MODULE Spec2Model ----
(***************************************************************************)
(* rSwag storefront: tenant ("space") resolution in the middleware, the    *)
(* space_id cookie, the server-side and client-side reads of that cookie,  *)
(* the tenant-scoped cart storage key, the cart handlers that use it on    *)
(* localStorage, the theme injector, and the server renders that fetch the *)
(* tenant configuration and the catalog.                                   *)
(*                                                                         *)
(* Strings are sequences of atoms.  An atom is an indivisible piece of     *)
(* text; the atoms are chosen with pairwise different first characters and *)
(* so that no atom can be spelled with other atoms, hence two atom         *)
(* sequences denote the same text exactly when they are equal, and         *)
(* substring search on atoms agrees with substring search on characters.   *)
(***************************************************************************)
EXTENDS Integers, Sequences, FiniteSets, TLC

\* Longest Host header value, in atoms.
MaxHostLen == 3

\* JavaScript null / undefined (an absent header, parameter or cookie).
Null == <<"null">>

\* Text a Host header is made of: a lower-case and an upper-case label
\* character, the root-domain suffix, the port separator and the two
\* local-development host names.
HostAtoms == {"x", "X", ".rswag.online", ":", "localhost", "127.0.0.1"}

\* All sequences over S of length at most n.
SeqsUpTo(S, n) == UNION {[1..k -> S] : k \in 0..n}

\* Host header values of a request: absent, or any text up to MaxHostLen atoms.
Hosts == {Null} \cup SeqsUpTo(HostAtoms, MaxHostLen)

\* Values of the `_space` query parameter: absent, empty, a tenant id, the
\* default token, and a value with a character that cookie serialisation
\* percent-encodes.
SpaceParams == {Null, <<>>, <<"x">>, <<"default">>, <<"x", " ">>}

\* Request paths: pages, and the three prefixes the matcher excludes.
Paths == {"/", "/products", "/cart", "/_next/static", "/_next/image", "/favicon.ico"}

----------------------------------------------------------------------------
\* String primitives of the JavaScript runtime, on atom sequences.

\* String.prototype.toLowerCase
toLowerCase(s) ==
  [i \in 1..Len(s) |->
     IF s[i] = "X" THEN "x" ELSE s[i]]

\* s.split(":")[0]: the text before the first ":" (all of s when there is none)
SplitColonFirst(s) ==
  LET colons == {i \in 1..Len(s) : s[i] = ":"}
  IN  IF colons = {} THEN s
      ELSE LET first == CHOOSE i \in colons : \A j \in colons : i <= j
           IN  SubSeq(s, 1, first - 1)

\* String.prototype.endsWith
endsWith(s, suffix) ==
  /\ Len(s) >= Len(suffix)
  /\ SubSeq(s, Len(s) - Len(suffix) + 1, Len(s)) = suffix

\* Positions at which pattern occurs in s.
Occurrences(s, pattern) ==
  {i \in 1..(Len(s) - Len(pattern) + 1) : SubSeq(s, i, i + Len(pattern) - 1) = pattern}

\* String.prototype.replace with a string pattern: replaces the FIRST
\* occurrence only.
replace(s, pattern, replacement) ==
  LET occ == Occurrences(s, pattern)
  IN  IF occ = {} THEN s
      ELSE LET first == CHOOSE i \in occ : \A j \in occ : i <= j
           IN  SubSeq(s, 1, first - 1) \o replacement
                 \o SubSeq(s, first + Len(pattern), Len(s))

\* JavaScript truthiness of a string-or-null value, and the `a || b` idiom.
Truthy(v) == v # Null /\ v # <<>>
OrElse(v, fallback) == IF Truthy(v) THEN v ELSE fallback

\* encodeURIComponent / decodeURIComponent, as applied to a cookie value
\* when it is serialised into Set-Cookie and parsed back by the server.
encodeURIComponent(s) == [i \in 1..Len(s) |-> IF s[i] = " " THEN "%20" ELSE s[i]]
decodeURIComponent(s) == [i \in 1..Len(s) |-> IF s[i] = "%20" THEN " " ELSE s[i]]

----------------------------------------------------------------------------
\* Tenant Resolver: middleware(request)

DefaultSpace == <<"default">>
RootSuffix == <<".rswag.online">>
LocalHosts == {<<"localhost">>, <<"127.0.0.1">>}

\* Variant: the `|| ""` fallback is missing.
HostOrEmpty_NoFallback(hostHeader) == hostHeader

\* const host = request.headers.get("host") || "";
HostOrEmpty(hostHeader) == OrElse(hostHeader, <<>>)

\* const hostname = host.split(":")[0].toLowerCase();
Hostname(hostHeader) == toLowerCase(SplitColonFirst(HostOrEmpty(hostHeader)))

\* let spaceId = "default"; if (hostname.endsWith(...)) spaceId = hostname.replace(...)
SubdomainSpace(hostname) ==
  IF endsWith(hostname, RootSuffix) THEN replace(hostname, RootSuffix, <<>>)
  ELSE DefaultSpace

\* Variant: only "localhost" counts as a local host.
LocalOverride_LocalhostOnly(hostname, spaceParam, spaceId) ==
  IF hostname = <<"localhost">> /\ Truthy(spaceParam) THEN spaceParam ELSE spaceId

\* Variant: the override is honoured on every host.
LocalOverride_AnyHost(hostname, spaceParam, spaceId) ==
  IF Truthy(spaceParam) THEN spaceParam ELSE spaceId

\* if (hostname === "localhost" || hostname === "127.0.0.1") { ... if (spaceParam) ... }
LocalOverride(hostname, spaceParam, spaceId) ==
  IF hostname \in LocalHosts /\ Truthy(spaceParam) THEN spaceParam ELSE spaceId

\* The whole handler: the resolved id and the Set-Cookie value, or a throw.
\* Calling .split on null is a TypeError.
middleware(hostHeader, spaceParam) ==
  LET host == HostOrEmpty(hostHeader)
  IN  IF host = Null
      THEN [threw |-> TRUE, spaceId |-> Null, setCookie |-> Null]
      ELSE LET hostname == toLowerCase(SplitColonFirst(host))
               spaceId  == LocalOverride(hostname, spaceParam, SubdomainSpace(hostname))
           IN  [threw |-> FALSE, spaceId |-> spaceId,
                setCookie |-> encodeURIComponent(spaceId)]

\* config.matcher: every path except the three excluded prefixes.
MatcherExcluded == {"/_next/static", "/_next/image", "/favicon.ico"}
Matches(path) == path \notin MatcherExcluded

----------------------------------------------------------------------------
\* Reading the marker back.

\* cookies(): the cookie store of the request being rendered.  The cookies
\* the middleware set on its response are merged over the cookies the
\* browser sent, so a render step of the same request sees them.
RequestCookies(sent, setByMiddleware) ==
  IF setByMiddleware # Null THEN setByMiddleware ELSE sent

\* cookieStore.get("space_id")?.value || "default"
\* (the store hands out the percent-decoded value)
ServerSpaceId(rawCookie) ==
  OrElse(IF rawCookie = Null THEN Null ELSE decodeURIComponent(rawCookie), DefaultSpace)

\* getSpaceIdFromCookie(): match[1] of /(?:^|;\s*)space_id=([^;]*)/ on
\* document.cookie, which holds the raw (still encoded) value.
getSpaceIdFromCookie(rawCookie) ==
  IF rawCookie # Null THEN rawCookie ELSE DefaultSpace

\* Variant: the "default" case is missing.
getCartKey_NoDefaultCase(spaceId) ==
  IF ~Truthy(spaceId) THEN <<"cart_id">> ELSE <<"cart_id", "_">> \o spaceId

\* Variant: the key is not scoped by tenant.
getCartKey_Unscoped(spaceId) == <<"cart_id">>

\* getCartKey(spaceId?)
getCartKey(spaceId) ==
  IF ~Truthy(spaceId) \/ spaceId = DefaultSpace THEN <<"cart_id">>
  ELSE <<"cart_id", "_">> \o spaceId

\* Server components that read the marker, and the page each renders on.
Components == {"RootLayout", "generateMetadata", "HomePage", "ProductsPage"}
RendersOn(component, p) ==
  CASE component = "HomePage" -> p = "/"
    [] component = "ProductsPage" -> p = "/products"
    [] OTHER -> TRUE

\* Space Registry: the tenant ids for which GET /spaces/{id} answers with a
\* TenantConfig.  The default tenant is always served.
SpaceRegistry == {DefaultSpace, <<"x">>}

----------------------------------------------------------------------------
\* State.

VARIABLES
  path,           \* path of the request being served ("none" between requests)
  host,           \* Host header of that request
  spaceParam,     \* `_space` query parameter of that request
  threw,          \* the middleware threw on that request
  spaceId,        \* the tenant id the middleware resolved on that request
  cookieWrites,   \* response.cookies.set calls made for that request
  cookie,         \* browser cookie jar: raw value of space_id, or Null
  reqCookies,     \* raw space_id in the cookie store of the request being rendered
  renderedBy,     \* server component that rendered last in this request
  serverSpaceId,  \* the tenant id that component read
  docCookie,      \* document.cookie as the last getSpaceIdFromCookie call saw it
  clientSpaceId,  \* result of that call
  cartKey,        \* getCartKey of that result
  idA, idB,       \* arguments of two getCartKey calls
  keyA, keyB      \* their results (Null until the call is made)

renderVars == <<renderedBy, serverSpaceId>>
clientVars == <<docCookie, clientSpaceId, cartKey>>
keyVars == <<idA, idB, keyA, keyB>>
requestVars == <<path, host, spaceParam, threw, spaceId, cookieWrites, cookie, reqCookies>>

\* The cart in the browser: localStorage and the handlers that use it.
VARIABLES
  storage,        \* localStorage: cart id stored under each cart key (NoCart: no item)
  nextCart,       \* id the backend gives to the next cart it creates
  mount,          \* the mount effect of the current page has not run yet
  addPc,          \* getOrCreateCart: "idle", "lookup" (GET pending), "create" (POST pending)
  addCartId,      \* its local cartId
  addSpace,       \* the tenant id it read when it was called
  addResult,      \* what its last call returned (NotReturned before the first)
  fetchPc,        \* fetchCart: "idle", "await" (GET pending)
  fetchKey,       \* its local cartKey
  fetchId,        \* its local cartId
  cart,           \* CartPage state `cart`: id of the loaded cart, or NoCart
  createKey,      \* key of the last localStorage.setItem
  lookupKey,      \* key of the last fetchCart getItem since that setItem
  clearKey,       \* key of the last checkout-success removeItem since that setItem
  itemPc,         \* updateQuantity and removeItem: "idle", "update" (PUT
                  \* pending), "remove" (DELETE pending)
  checkPc,        \* handleCheckout: "idle", "await" (POST pending)
  paid            \* the page was loaded by the payment provider's redirect
                  \* to success_url after a completed payment

checkoutVars == <<itemPc, checkPc, paid>>

cartVars == <<storage, nextCart, mount, addPc, addCartId, addSpace, addResult,
              fetchPc, fetchKey, fetchId, cart, createKey, lookupKey, clearKey,
              checkoutVars>>

\* A theme on its way into the page.
VARIABLES
  theme,          \* the `theme` value of a SpaceConfig
  themeCSS,       \* the CSS text computed from it (Null before the computation)
  themeBy         \* who computed it: "none", "themeToCSS", "RootLayout"

themeVars == <<theme, themeCSS, themeBy>>

\* A server render of one component and the backend requests it waits for.
VARIABLES
  pageState,      \* "none", "pending" (awaiting), "done" (rendered), "error" (threw)
  catalogUrl,     \* URL of the catalog request (Null: none sent)
  prodAnswer,     \* the backend's answer to it ("none", "pending", or an answer)
  prodPc,         \* promise of getProducts: "none", "pending", "fulfilled", "rejected"
  products,       \* the list it was fulfilled with
  configUrl,      \* URL of the registry request (Null: none sent)
  confAnswer,     \* the backend's answer to it
  confPc,         \* promise of getSpaceConfig
  space,          \* the SpaceConfig | null it was fulfilled with
  firstSettled,   \* which of the two promises settled first ("none" before)
  output          \* what the component rendered

pageVars == <<pageState, catalogUrl, prodAnswer, prodPc, products,
              configUrl, confAnswer, confPc, space, firstSettled, output>>

\* The upload form of UploadPage and its product previews.
VARIABLES
  file,           \* state `file`: the selected file (NoFile: null)
  preview,        \* state `preview`: number of its object URL (NoPreview: null)
  uploadName,     \* state `name` of UploadPage
  uploadError,    \* state `error` of UploadPage (Null: none shown)
  isDragging,     \* state `isDragging`
  offered,        \* the file the last handleFile call was given (NoFile after
                  \* a step of another handler)
  urls,           \* object URLs created so far
  mockups,        \* state `mockups`: per product type, the preview its mockup
                  \* was generated from (NoPreview: no entry)
  pending         \* per product type, the previews whose generateMockup call
                  \* has not settled

formVars == <<file, preview, uploadName, uploadError, isDragging, offered, urls,
              mockups, pending>>

\* One generateMockup call.
VARIABLES
  ctx,            \* canvas.getContext("2d") gives a context
  config,         \* productType of the MockupConfig passed in
  designSize,     \* <<width, height>> of the design image
  templateImg,    \* "none", "loading" (src set), "loaded", "failed"
  designImg,      \* the same for the design image
  loaded,         \* the counter `loaded`
  loadOrder,      \* the images in the order their onload ran
  drawn,          \* the drawImage calls made on the context, in order
  mockupPromise,  \* the returned promise: "none" (not called), "pending",
                  \* "resolved", "rejected"
  settlements     \* the resolve and reject calls that settled it, in order

compositeVars == <<ctx, config, designSize, templateImg, designImg, loaded,
                   loadOrder, drawn, mockupPromise, settlements>>

\* The designs of DesignPage and UploadPage and the requests about them.
VARIABLES
  studioPage,       \* the page shown: "design", "upload" ("none": neither)
  designName,       \* DesignPage state `name`
  concept,          \* DesignPage state `concept`
  generatedDesign,  \* DesignPage state `generatedDesign` (NoDesign: null)
  isGenerating,     \* DesignPage state `isGenerating`
  designError,      \* DesignPage state `error`
  uploadedDesign,   \* UploadPage state `uploadedDesign` (NoDesign: null)
  isUploading,      \* UploadPage state `isUploading`
  isActivating,     \* state `isActivating` of the page shown
  activateOf,       \* the design the pending handleActivate call closed over
                    \* (NoDesign: no call pending)
  deleting,         \* slugs of the designs the pending handleDelete calls
                    \* closed over
  slugs,            \* designs the backend has created
  discarded,        \* slugs of the designs whose DELETE was answered OK
  lastOutcome       \* the answer to the request that was answered last

handlerVars == <<studioPage, designName, concept, generatedDesign, isGenerating,
                 designError, uploadedDesign, isUploading, isActivating,
                 activateOf, deleting, slugs, discarded, lastOutcome>>

\* The in-progress flags of the pages and the requests their handlers wait
\* for.
VARIABLES
  shopPage,         \* the shop page shown: "cart", "product" ("none": neither)
  loading,          \* state `loading` of the page shown
  updating,         \* CartPage state `updating`: an item id (NoItem: null)
  checkingOut,      \* CartPage state `checkingOut`
  addingToCart,     \* ProductPage state `addingToCart`
  product,          \* ProductPage state `product` and `selectedVariant`
  calls             \* per handler, the request its running call waits for
                    \* and the answer to it

flagVars == <<shopPage, loading, updating, checkingOut, addingToCart, product, calls>>

\* The browser pages added to the resolver, the cart, the theme and the
\* server renders.
studioVars == <<formVars, compositeVars, handlerVars, flagVars>>

\* What the steps of the studio pages leave alone.
storeVars == <<requestVars, renderVars, clientVars, keyVars, cartVars, themeVars, pageVars>>

\* What the steps of the upload form leave alone, and those of generateMockup.
notFormVars == <<storeVars, compositeVars, handlerVars, flagVars>>
notCompositeVars == <<storeVars, formVars, handlerVars, flagVars>>

\* What the steps of the resolver and of the cart leave alone.
sideVars == <<themeVars, pageVars, studioVars>>

\* What the resolver's steps leave alone.
otherVars == <<cartVars, sideVars>>

vars == <<path, host, spaceParam, threw, spaceId, cookieWrites, cookie, reqCookies,
          renderedBy, serverSpaceId, docCookie, clientSpaceId, cartKey,
          idA, idB, keyA, keyB,
          storage, nextCart, mount, addPc, addCartId, addSpace, addResult,
          fetchPc, fetchKey, fetchId, cart, createKey, lookupKey, clearKey,
          itemPc, checkPc, paid,
          theme, themeCSS, themeBy,
          pageState, catalogUrl, prodAnswer, prodPc, products,
          configUrl, confAnswer, confPc, space, firstSettled, output,
          file, preview, uploadName, uploadError, isDragging, offered, urls,
          mockups, pending,
          ctx, config, designSize, templateImg, designImg, loaded,
          loadOrder, drawn, mockupPromise, settlements,
          studioPage, designName, concept, generatedDesign, isGenerating,
          designError, uploadedDesign, isUploading, isActivating,
          activateOf, deleting, slugs, discarded, lastOutcome,
          shopPage, loading, updating, checkingOut, addingToCart, product, calls>>

\* Carts the backend creates in one run.
MaxCarts == 2

\* localStorage.getItem of a missing item (null), and a null return value.
NoCart == 0
\* getOrCreateCart has not returned yet.
NotReturned == -1

\* Origins a browser tab can be on: a tenant's production host and the
\* development host.  localStorage and the cookie jar belong to one origin.
StoreHosts == {<<"x", ".rswag.online">>, <<"localhost">>}

\* `_space` values of the tab's requests: absent, or the tenant x.
StoreParams == {Null, <<"x">>}
StoreMarkers == {middleware(h, q).setCookie : h \in StoreHosts, q \in StoreParams}
\* Markers the middleware writes on these origins (above), and the cart keys
\* the client derives from them or from no marker.
CartKeys == {getCartKey(getSpaceIdFromCookie(c)) : c \in {Null} \cup StoreMarkers}

\* Pages with a cart handler.
CartPaths == {"/products/[slug]", "/cart", "/checkout/success"}

\* No cart activity yet.
CartIdle ==
  /\ storage = [k \in CartKeys |-> NoCart]
  /\ nextCart = 1
  /\ mount = FALSE
  /\ addPc = "idle"
  /\ addCartId = NoCart
  /\ addSpace = Null
  /\ addResult = NotReturned
  /\ fetchPc = "idle"
  /\ fetchKey = Null
  /\ fetchId = NoCart
  /\ cart = NoCart
  /\ createKey = Null
  /\ lookupKey = Null
  /\ clearKey = Null
  /\ itemPc = "idle"
  /\ checkPc = "idle"
  /\ paid = FALSE

\* Properties a theme object carries in the model: three roles of the table
\* and one name the table does not know.
ThemeKeys == {"primary", "background", "ring", "bogus"}

\* Values of a property of a theme object, as JSON can deliver them: absent,
\* the empty string, a colour, and values that are not strings (the numbers
\* 0 and 5, a nested object).
NumberZero == <<"number 0">>
NumberFive == <<"number 5">>
ObjectValue == <<"object">>
RoleValues == {Null, <<>>, <<"#fff">>, NumberZero, NumberFive, ObjectValue}

\* A `theme` value: its JavaScript kind and, for an object, its properties.
NoRoles == [k \in ThemeKeys |-> Null]
ThemeObjects == {[kind |-> "object", roles |-> r] : r \in [ThemeKeys -> RoleValues]}
NotObjects == {[kind |-> k, roles |-> NoRoles] : k \in {"absent", "null", "emptystring", "string", "number"}}
Themes == ThemeObjects \cup NotObjects
NoTheme == [kind |-> "absent", roles |-> NoRoles]

\* getSpaceConfig returned null.
NullConfig ==
  [kind |-> "null", name |-> Null, tagline |-> Null, description |-> Null,
   footer_text |-> Null, logo_url |-> Null, theme |-> NoTheme]

\* What a component renders: the texts and lists that depend on the tenant.
NoOutput ==
  [name |-> Null, tagline |-> Null, title |-> Null, description |-> Null,
   footerText |-> Null, logoUrl |-> Null, themeCSS |-> Null, products |-> Null]

\* No render under way.
PageIdle ==
  /\ pageState = "none"
  /\ catalogUrl = Null
  /\ prodAnswer = "none"
  /\ prodPc = "none"
  /\ products = Null
  /\ configUrl = Null
  /\ confAnswer = "none"
  /\ confPc = "none"
  /\ space = NullConfig
  /\ firstSettled = "none"
  /\ output = NoOutput

\* No theme computed yet.
ThemeIdle ==
  /\ theme = NoTheme
  /\ themeCSS = Null
  /\ themeBy = "none"

\* Object URLs one UploadPage creates in one run.
MaxUrls == 2

\* File.type values: the three types the file input lists, another image
\* type, a type that is no image, and the empty type of an unknown file.
AcceptTypes == {<<"image/", "png">>, <<"image/", "jpeg">>, <<"image/", "webp">>}
FileTypes == AcceptTypes \cup {<<"image/", "gif">>, <<"text/", "plain">>, <<>>}

\* 10 * 1024 * 1024
TenMB == 10485760

\* File.size values: small, exactly 10 MB, one byte more.
FileSizes == {1, TenMB, TenMB + 1}

\* File.name of the files of each type.
FileNameOf(type) ==
  IF type = <<>> THEN <<"README">>
  ELSE IF type = <<"text/", "plain">> THEN <<"my", "_", "notes", ".", "txt">>
  ELSE <<"my", "-", "logo", ".", type[2]>>

Files == {[type |-> t, size |-> n, name |-> FileNameOf(t)] : t \in FileTypes, n \in FileSizes}

\* `file` is null; `preview` is null or a product type has no mockup.
NoFile == [type |-> Null, size |-> 0, name |-> Null]
NoPreview == 0

\* productType of the entries of MOCKUP_CONFIGS.
ProductTypes == {"shirt", "sticker", "print"}

\* The error messages of handleFile.
NotAnImage == <<"Please select an image file (PNG, JPEG, or WebP)">>
TooLarge == <<"File must be under 10 MB">>

\* UploadPage as it mounts.
FormIdle ==
  /\ file = NoFile
  /\ preview = NoPreview
  /\ uploadName = <<>>
  /\ uploadError = Null
  /\ isDragging = FALSE
  /\ offered = NoFile
  /\ urls = 0
  /\ mockups = [t \in ProductTypes |-> NoPreview]
  /\ pending = [t \in ProductTypes |-> {}]

\* What generateMockup draws on: the design areas of MOCKUP_CONFIGS
\* (<<x, y, width, height>>) and the canvas.
DesignArea(productType) ==
  CASE productType = "shirt" -> <<275, 300, 250, 250>>
    [] productType = "sticker" -> <<130, 130, 540, 540>>
    [] productType = "print" -> <<160, 160, 480, 480>>
CanvasSize == 800

\* Sizes of a design image: square, wide, tall.
DesignSizes == {<<500, 500>>, <<500, 100>>, <<100, 500>>}

\* No generateMockup call yet.
CompositeIdle ==
  /\ ctx = TRUE
  /\ config = "shirt"
  /\ designSize = <<500, 500>>
  /\ templateImg = "none"
  /\ designImg = "none"
  /\ loaded = 0
  /\ loadOrder = <<>>
  /\ drawn = <<>>
  /\ mockupPromise = "none"
  /\ settlements = <<>>

\* Designs the backend creates in one run.
MaxDesigns == 2

\* A design as the pages hold it: its slug and its status.
NoDesign == [slug |-> 0, status |-> "none"]
Draft(n) == [slug |-> n, status |-> "draft"]

\* No design page open.
HandlerIdle ==
  /\ studioPage = "none"
  /\ designName = <<>>
  /\ concept = <<>>
  /\ generatedDesign = NoDesign
  /\ isGenerating = FALSE
  /\ designError = Null
  /\ uploadedDesign = NoDesign
  /\ isUploading = FALSE
  /\ isActivating = FALSE
  /\ activateOf = NoDesign
  /\ deleting = {}
  /\ slugs = 0
  /\ discarded = {}
  /\ lastOutcome = "none"

\* The handlers a page's in-progress flags belong to.
Handlers == {"fetchCart", "updateQuantity", "removeItem", "handleCheckout",
             "fetchProduct", "handleAddToCart",
             "handleGenerate", "handleActivate", "handleUpload"}

\* No call of a handler is running.
NoCall == [request |-> "none", answer |-> "none"]

\* The items of the cart; NoItem is the null of `updating`.
Items == {"a", "b"}
NoItem == "null"

\* No shop page open: the states are as useState creates them.
FlagsIdle ==
  /\ shopPage = "none"
  /\ loading = TRUE
  /\ updating = NoItem
  /\ checkingOut = FALSE
  /\ addingToCart = FALSE
  /\ product = "null"
  /\ calls = [h \in Handlers |-> NoCall]

StudioIdle == FormIdle /\ CompositeIdle /\ HandlerIdle /\ FlagsIdle

SideIdle == ThemeIdle /\ PageIdle /\ StudioIdle

Init ==
  /\ path = "none"
  /\ host = Null
  /\ spaceParam = Null
  /\ threw = FALSE
  /\ spaceId = Null
  /\ cookieWrites = 0
  /\ cookie = Null
  /\ reqCookies = Null
  /\ renderedBy = "none"
  /\ serverSpaceId = Null
  /\ docCookie = Null
  /\ clientSpaceId = Null
  /\ cartKey = Null
  /\ idA = Null
  /\ idB = Null
  /\ keyA = Null
  /\ keyB = Null
  /\ CartIdle
  /\ SideIdle

\* Variant: the middleware leaves an existing marker alone.
PageRequest_KeepExisting(h, q, p) ==
  /\ path = "none"
  /\ Matches(p)
  /\ LET r == middleware(h, q)
         keep == cookie # Null
     IN  /\ path' = p
         /\ host' = h
         /\ spaceParam' = q
         /\ threw' = r.threw
         /\ spaceId' = r.spaceId
         /\ cookieWrites' = IF r.threw \/ keep THEN 0 ELSE 1
         /\ cookie' = IF r.threw \/ keep THEN cookie ELSE r.setCookie
         /\ reqCookies' = IF keep THEN cookie ELSE RequestCookies(cookie, r.setCookie)
  /\ UNCHANGED renderVars
  /\ UNCHANGED clientVars
  /\ UNCHANGED keyVars
  /\ UNCHANGED otherVars

\* A request for a page: the matcher selects it, the middleware runs, and its
\* Set-Cookie reaches both the browser and the render of this request.
PageRequest(h, q, p) ==
  /\ path = "none"
  /\ Matches(p)
  /\ LET r == middleware(h, q)
     IN  /\ path' = p
         /\ host' = h
         /\ spaceParam' = q
         /\ threw' = r.threw
         /\ spaceId' = r.spaceId
         /\ cookieWrites' = IF r.threw THEN 0 ELSE 1
         /\ cookie' = IF r.threw THEN cookie ELSE r.setCookie
         /\ reqCookies' = RequestCookies(cookie, r.setCookie)
  /\ UNCHANGED renderVars
  /\ UNCHANGED clientVars
  /\ UNCHANGED keyVars
  /\ UNCHANGED otherVars

\* A request the matcher excludes: the middleware does not run.
AssetRequest(p) ==
  /\ path = "none"
  /\ ~Matches(p)
  /\ path' = p
  /\ cookieWrites' = 0
  /\ reqCookies' = cookie
  /\ UNCHANGED <<host, spaceParam, threw, spaceId, cookie>>
  /\ UNCHANGED renderVars
  /\ UNCHANGED clientVars
  /\ UNCHANGED keyVars
  /\ UNCHANGED otherVars

\* A server component of the current page request reads the marker.
Render(c) ==
  /\ path # "none"
  /\ Matches(path)
  /\ ~threw
  /\ RendersOn(c, path)
  /\ renderedBy' = c
  /\ serverSpaceId' = ServerSpaceId(reqCookies)
  /\ UNCHANGED requestVars
  /\ UNCHANGED clientVars
  /\ UNCHANGED keyVars
  /\ UNCHANGED otherVars

\* maxAge: 86400 runs out.
CookieExpire ==
  /\ cookie # Null
  /\ cookie' = Null
  /\ UNCHANGED <<path, host, spaceParam, threw, spaceId, cookieWrites, reqCookies>>
  /\ UNCHANGED renderVars
  /\ UNCHANGED clientVars
  /\ UNCHANGED keyVars
  /\ UNCHANGED otherVars

\* The cart page in the browser: getCartKey(getSpaceIdFromCookie()).
ClientRead ==
  /\ path = "/cart"
  /\ ~threw
  /\ docCookie' = cookie
  /\ clientSpaceId' = getSpaceIdFromCookie(cookie)
  /\ cartKey' = getCartKey(getSpaceIdFromCookie(cookie))
  /\ UNCHANGED requestVars
  /\ UNCHANGED renderVars
  /\ UNCHANGED keyVars
  /\ UNCHANGED otherVars

\* The response has been delivered and the page is left: the values scoped
\* to the request and to the page are gone, the cookie jar stays.
Leave ==
  /\ path # "none"
  /\ path' = "none"
  /\ host' = Null
  /\ spaceParam' = Null
  /\ threw' = FALSE
  /\ spaceId' = Null
  /\ cookieWrites' = 0
  /\ reqCookies' = Null
  /\ renderedBy' = "none"
  /\ serverSpaceId' = Null
  /\ docCookie' = Null
  /\ clientSpaceId' = Null
  /\ cartKey' = Null
  /\ UNCHANGED cookie
  /\ UNCHANGED keyVars
  /\ UNCHANGED otherVars

\* The browser sends its next request once the previous page has been left.
Request ==
  /\ path = "none"
  /\ \/ \E h \in Hosts, q \in SpaceParams, p \in Paths : PageRequest(h, q, p)
     \/ \E p \in Paths : AssetRequest(p)

Next ==
  \/ Request
  \/ \E c \in Components : Render(c)
  \/ CookieExpire
  \/ ClientRead
  \/ Leave

Spec == Init /\ [][Next]_vars

----------------------------------------------------------------------------
\* Properties of the Tenant Resolver.

\* A page request has been through the middleware.
Resolved == path # "none" /\ Matches(path)

\* The part of a host name that precedes its trailing root-domain suffix.
LabelOf(hostname) == SubSeq(hostname, 1, Len(hostname) - Len(RootSuffix))

\* C1: when the host name (port dropped, lower-cased) ends with
\* .rswag.online, the resolved tenant id is exactly the part of the host name
\* before that trailing suffix, and that value is written to space_id.
C1_SubdomainIsLabel ==
  (Resolved /\ endsWith(Hostname(host), RootSuffix)) =>
     /\ spaceId = LabelOf(Hostname(host))
     /\ cookieWrites = 1
     /\ reqCookies = encodeURIComponent(LabelOf(Hostname(host)))

\* C2: the middleware never throws, whatever the Host header (absent, empty,
\* no dot, stray colons), and a host name that neither ends with
\* .rswag.online nor is a local host resolves to "default".
C2_ResolutionTotal ==
  Resolved =>
     /\ ~threw
     /\ (~endsWith(Hostname(host), RootSuffix) /\ Hostname(host) \notin LocalHosts)
           => spaceId = DefaultSpace

C2_Witness ==
  Resolved /\ host = Null /\ ~threw /\ spaceId = DefaultSpace /\ cookieWrites = 1

\* C3: on localhost or 127.0.0.1 the resolved tenant id is the `_space`
\* parameter when it is present and non-empty, and "default" otherwise.
C3_LocalOverride ==
  (Resolved /\ Hostname(host) \in LocalHosts) =>
     spaceId = (IF spaceParam # Null /\ spaceParam # <<>> THEN spaceParam ELSE DefaultSpace)

C3_Witness ==
  /\ Resolved
  /\ host = <<"127.0.0.1", ":", "x">>
  /\ spaceParam = <<"x">>
  /\ spaceId = <<"x">>

\* C4: on a host that is neither localhost nor 127.0.0.1, a request with the
\* same Host header and any other value (or absence) of `_space` resolves to
\* the same tenant id as this request did.
C4_OverrideIgnoredOffLocal ==
  (Resolved /\ Hostname(host) \notin LocalHosts) =>
     \A q \in SpaceParams : middleware(host, q).spaceId = spaceId

C4_Witness ==
  /\ Resolved
  /\ host = <<"X", ".rswag.online">>
  /\ spaceParam = <<"default">>
  /\ spaceId = <<"x">>

\* C5: the value of the space_id marker is always "default" or a tenant id
\* the Space Registry resolves to a TenantConfig.
C5_MarkerInRegistry ==
  cookie # Null => decodeURIComponent(cookie) \in SpaceRegistry \cup {DefaultSpace}

\* C6: every request that passes the middleware writes the marker exactly
\* once, and the value it leaves is the tenant id resolved for that request,
\* whatever was stored before; a request the matcher excludes writes nothing.
C6_MarkerFollowsLastRequest ==
  [][(path = "none" /\ path' # "none") =>
        IF Matches(path')
        THEN cookieWrites' = 1 /\ decodeURIComponent(cookie') = spaceId'
        ELSE cookieWrites' = 0 /\ cookie' = cookie]_vars

C6_Witness ==
  /\ Resolved
  /\ spaceId = <<"x", " ">>
  /\ cookie = <<"x", "%20">>
  /\ cookieWrites = 1

\* C7: the tenant id a server component uses is the id the middleware
\* resolved for the same request.
C7_RenderUsesResolvedId ==
  renderedBy # "none" => serverSpaceId = spaceId

\* C8: server-rendered and client-rendered code obtain the same tenant id
\* from the same cookie.
C8_ServerClientAgree ==
  (renderedBy # "none" /\ clientSpaceId # Null /\ docCookie = reqCookies) =>
     serverSpaceId = clientSpaceId

----------------------------------------------------------------------------
\* Properties of the Cart Key Scoper.

\* Every value getSpaceIdFromCookie can hand to getCartKey: what it reads
\* from any marker the middleware can write, or with no marker at all; and
\* the absent argument the signature allows.
ClientIds ==
  {getSpaceIdFromCookie(c) :
     c \in {Null} \cup {middleware(h, q).setCookie : h \in Hosts, q \in SpaceParams}}
CartKeyArgs == ClientIds \cup {Null}

\* C9 as stated: "default" maps to cart_id and every other tenant id t maps
\* to cart_id_ followed by t.
C9_Original ==
  cartKey # Null =>
     cartKey = (IF clientSpaceId = DefaultSpace THEN <<"cart_id">>
                ELSE <<"cart_id", "_">> \o clientSpaceId)

\* C9: "default" and the empty tenant id map to the base key cart_id; every
\* other tenant id t maps to cart_id_ followed by t.
C9_CartKeyMapping ==
  cartKey # Null =>
     cartKey = (IF clientSpaceId = DefaultSpace \/ clientSpaceId = <<>> THEN <<"cart_id">>
                ELSE <<"cart_id", "_">> \o clientSpaceId)

C9_Witness ==
  /\ path = "/cart"
  /\ clientSpaceId = <<"x">>
  /\ cartKey = <<"cart_id", "_", "x">>

\* Two calls of getCartKey, on any two values it can be given.
InitCartKey ==
  /\ path = "none"
  /\ host = Null
  /\ spaceParam = Null
  /\ threw = FALSE
  /\ spaceId = Null
  /\ cookieWrites = 0
  /\ cookie = Null
  /\ reqCookies = Null
  /\ renderedBy = "none"
  /\ serverSpaceId = Null
  /\ docCookie = Null
  /\ clientSpaceId = Null
  /\ cartKey = Null
  /\ idA \in CartKeyArgs
  /\ idB \in CartKeyArgs
  /\ keyA = Null
  /\ keyB = Null
  /\ CartIdle
  /\ SideIdle

CallA ==
  /\ keyA' = getCartKey(idA)
  /\ UNCHANGED <<idA, idB, keyB>>
  /\ UNCHANGED <<requestVars, renderVars, clientVars>>
  /\ UNCHANGED otherVars

CallB ==
  /\ keyB' = getCartKey(idB)
  /\ UNCHANGED <<idA, idB, keyA>>
  /\ UNCHANGED <<requestVars, renderVars, clientVars>>
  /\ UNCHANGED otherVars

NextCartKey == CallA \/ CallB

CartKeySpec == InitCartKey /\ [][NextCartKey]_vars

\* The tenant a getCartKey argument stands for: empty and absent mean default.
TenantOf(id) == IF id = Null \/ id = <<>> THEN DefaultSpace ELSE id

\* C10 as stated, on the values the cookie read produces: any two different
\* tenant id values (default and empty included) have different storage keys.
C10_Original ==
  (keyA # Null /\ keyB # Null /\ idA # Null /\ idB # Null /\ idA # idB) => keyA # keyB

\* C10: two tenant id values have the same storage key only when both are
\* among "default", the empty string and the absent value (which all map to
\* cart_id); any other two different tenant ids have different keys.
C10_InjectiveUpToDefault ==
  (keyA # Null /\ keyB # Null /\ TenantOf(idA) # TenantOf(idB)) => keyA # keyB

C10_Witness ==
  /\ idA = <<"x">>
  /\ idB = <<"x", "%20">>
  /\ keyA = <<"cart_id", "_", "x">>
  /\ keyB = <<"cart_id", "_", "x", "%20">>

----------------------------------------------------------------------------
\* The cart in the browser.

\* The resolver's variables other than the origin, before any request.
RequestIdle ==
  /\ path = "none"
  /\ spaceParam = Null
  /\ threw = FALSE
  /\ spaceId = Null
  /\ cookieWrites = 0
  /\ cookie = Null
  /\ reqCookies = Null
  /\ renderedBy = "none"
  /\ serverSpaceId = Null
  /\ docCookie = Null
  /\ clientSpaceId = Null
  /\ cartKey = Null
  /\ idA = Null
  /\ idB = Null
  /\ keyA = Null
  /\ keyB = Null

\* A browser tab on one origin, with empty localStorage and no marker.
InitCart ==
  /\ RequestIdle
  /\ host \in StoreHosts
  /\ CartIdle
  /\ SideIdle

\* Answers of the backend to a cart request: res.ok, !res.ok, fetch throws.
Outcomes == {"ok", "notok", "throw"}

\* The tab goes to a page of its origin: the middleware runs on the request
\* and writes the marker.  Handlers already waiting for the backend go on.
CartNavigate(q, p) ==
  /\ LET r == middleware(host, q)
     IN  /\ path' = p
         /\ spaceParam' = q
         /\ threw' = r.threw
         /\ spaceId' = r.spaceId
         /\ cookieWrites' = IF r.threw THEN 0 ELSE 1
         /\ cookie' = IF r.threw THEN cookie ELSE r.setCookie
         /\ reqCookies' = RequestCookies(cookie, r.setCookie)
  /\ mount' = (p \in {"/cart", "/checkout/success"})
  /\ cart' = NoCart
  /\ paid' = FALSE
  /\ UNCHANGED <<itemPc, checkPc>>
  /\ UNCHANGED <<host, renderVars, clientVars, keyVars, sideVars>>
  /\ UNCHANGED <<storage, nextCart, addPc, addCartId, addSpace, addResult,
                 fetchPc, fetchKey, fetchId, createKey, lookupKey, clearKey>>

\* maxAge: 86400 runs out while a page stays open (mount effects run as soon
\* as the page is loaded, before that can happen).
MarkerExpires ==
  /\ path # "none"
  /\ ~mount
  /\ cookie # Null
  /\ cookie' = Null
  /\ UNCHANGED <<path, host, spaceParam, threw, spaceId, cookieWrites, reqCookies>>
  /\ UNCHANGED <<renderVars, clientVars, keyVars, cartVars, sideVars>>

\* handleAddToCart calls getOrCreateCart: the stored id is read under the
\* key of the marker, and a GET (stored id) or a POST (none) is sent.
AddToCartStart ==
  /\ path = "/products/[slug]"
  /\ addPc = "idle"
  /\ LET id == getSpaceIdFromCookie(cookie)
         stored == storage[getCartKey(id)]
     IN  /\ addSpace' = id
         /\ addCartId' = stored
         /\ addPc' = IF stored # NoCart THEN "lookup" ELSE "create"
  /\ UNCHANGED <<requestVars, renderVars, clientVars, keyVars, sideVars>>
  /\ UNCHANGED checkoutVars
  /\ UNCHANGED <<storage, nextCart, mount, addResult,
                 fetchPc, fetchKey, fetchId, cart, createKey, lookupKey, clearKey>>

\* getOrCreateCart: GET /cart/{cartId} is answered.
LookupDone(o) ==
  /\ addPc = "lookup"
  /\ IF o = "ok"
     THEN /\ addPc' = "idle"
          /\ addResult' = addCartId
     ELSE /\ addPc' = "create"
          /\ UNCHANGED addResult
  /\ UNCHANGED <<requestVars, renderVars, clientVars, keyVars, sideVars>>
  /\ UNCHANGED checkoutVars
  /\ UNCHANGED <<storage, nextCart, mount, addCartId, addSpace,
                 fetchPc, fetchKey, fetchId, cart, createKey, lookupKey, clearKey>>

\* getOrCreateCart, line 152: the key the new id is stored under.
CreateKey == getCartKey(getSpaceIdFromCookie(cookie))

\* getOrCreateCart: POST /cart is answered.
CreateDone(o) ==
  /\ addPc = "create"
  /\ o = "ok" => nextCart <= MaxCarts
  /\ addPc' = "idle"
  /\ IF o = "ok"
     THEN /\ storage' = [storage EXCEPT ![CreateKey] = nextCart]
          /\ createKey' = CreateKey
          /\ addCartId' = nextCart
          /\ addResult' = nextCart
          /\ nextCart' = nextCart + 1
          /\ lookupKey' = Null
          /\ clearKey' = Null
     ELSE /\ addResult' = NoCart
          /\ UNCHANGED <<storage, createKey, addCartId, nextCart, lookupKey, clearKey>>
  /\ UNCHANGED <<requestVars, renderVars, clientVars, keyVars, sideVars>>
  /\ UNCHANGED checkoutVars
  /\ UNCHANGED <<mount, addSpace, fetchPc, fetchKey, fetchId, cart>>

\* CartPage mounts: fetchCart reads the stored id and asks the backend for it.
FetchCartStart ==
  /\ path = "/cart"
  /\ mount
  /\ fetchPc = "idle"
  /\ LET key == getCartKey(getSpaceIdFromCookie(cookie))
     IN  /\ fetchKey' = key
         /\ fetchId' = storage[key]
         /\ lookupKey' = key
         /\ fetchPc' = IF storage[key] # NoCart THEN "await" ELSE "idle"
  /\ mount' = FALSE
  /\ UNCHANGED <<requestVars, renderVars, clientVars, keyVars, sideVars>>
  /\ UNCHANGED checkoutVars
  /\ UNCHANGED <<storage, nextCart, addPc, addCartId, addSpace, addResult,
                 cart, createKey, clearKey>>

\* fetchCart: GET /cart/{cartId} is answered.  setCart reaches the page only
\* while the CartPage that started the call is still the one shown.
FetchCartDone(o) ==
  /\ fetchPc = "await"
  /\ fetchPc' = "idle"
  /\ storage' = IF o = "notok" THEN [storage EXCEPT ![fetchKey] = NoCart] ELSE storage
  /\ cart' = IF path = "/cart" /\ ~mount
             THEN (IF o = "ok" THEN fetchId ELSE NoCart)
             ELSE cart
  /\ UNCHANGED <<requestVars, renderVars, clientVars, keyVars, sideVars>>
  /\ UNCHANGED checkoutVars
  /\ UNCHANGED <<nextCart, mount, addPc, addCartId, addSpace, addResult,
                 fetchKey, fetchId, createKey, lookupKey, clearKey>>

\* CheckoutSuccessPage mounts: the stored id of the marker's key is removed.
SuccessMount ==
  /\ path = "/checkout/success"
  /\ mount
  /\ LET key == getCartKey(getSpaceIdFromCookie(cookie))
     IN  /\ storage' = [storage EXCEPT ![key] = NoCart]
         /\ clearKey' = key
  /\ mount' = FALSE
  /\ UNCHANGED <<requestVars, renderVars, clientVars, keyVars, sideVars>>
  /\ UNCHANGED checkoutVars
  /\ UNCHANGED <<nextCart, addPc, addCartId, addSpace, addResult,
                 fetchPc, fetchKey, fetchId, cart, createKey, lookupKey>>

\* What the cart page's item and checkout handlers leave alone.
notCheckoutVars == <<storage, nextCart, mount, addPc, addCartId, addSpace, addResult,
                     fetchPc, fetchKey, fetchId, cart, createKey, lookupKey, clearKey>>

\* Quantities the quantity buttons can ask for.
Quantities == 0..2

\* updateQuantity(itemId, newQuantity) on the loaded cart: PUT the quantity.
updateQuantity(newQuantity) ==
  /\ path = "/cart"
  /\ ~mount
  /\ cart # NoCart
  /\ newQuantity >= 1
  /\ itemPc = "idle"
  /\ itemPc' = "update"
  /\ UNCHANGED <<checkPc, paid, notCheckoutVars>>
  /\ UNCHANGED <<requestVars, renderVars, clientVars, keyVars, sideVars>>

\* The PUT is answered: an OK answer is the same cart with the new lines.
UpdateDone(o) ==
  /\ itemPc = "update"
  /\ itemPc' = "idle"
  /\ UNCHANGED <<checkPc, paid, notCheckoutVars>>
  /\ UNCHANGED <<requestVars, renderVars, clientVars, keyVars, sideVars>>

\* removeItem(itemId) on the loaded cart: DELETE the line.
removeItem ==
  /\ path = "/cart"
  /\ ~mount
  /\ cart # NoCart
  /\ itemPc = "idle"
  /\ itemPc' = "remove"
  /\ UNCHANGED <<checkPc, paid, notCheckoutVars>>
  /\ UNCHANGED <<requestVars, renderVars, clientVars, keyVars, sideVars>>

\* The DELETE is answered.
RemoveDone(o) ==
  /\ itemPc = "remove"
  /\ itemPc' = "idle"
  /\ UNCHANGED <<checkPc, paid, notCheckoutVars>>
  /\ UNCHANGED <<requestVars, renderVars, clientVars, keyVars, sideVars>>

\* handleCheckout on the loaded cart: POST /checkout/session.
handleCheckout ==
  /\ path = "/cart"
  /\ ~mount
  /\ cart # NoCart
  /\ checkPc = "idle"
  /\ checkPc' = "await"
  /\ UNCHANGED <<itemPc, paid, notCheckoutVars>>
  /\ UNCHANGED <<requestVars, renderVars, clientVars, keyVars, sideVars>>

\* The POST is answered.  On OK the tab is sent to checkout_url, the page of
\* the payment provider: the document is unloaded and its handlers with it.
CheckoutDone(o) ==
  /\ checkPc = "await"
  /\ checkPc' = "idle"
  /\ IF o = "ok"
     THEN /\ path' = "payment"
          /\ mount' = FALSE
          /\ cart' = NoCart
          /\ addPc' = "idle"
          /\ fetchPc' = "idle"
          /\ itemPc' = "idle"
          /\ paid' = FALSE
     ELSE UNCHANGED <<path, mount, cart, addPc, fetchPc, itemPc, paid>>
  /\ UNCHANGED <<storage, nextCart, addCartId, addSpace, addResult,
                 fetchKey, fetchId, createKey, lookupKey, clearKey>>
  /\ UNCHANGED <<host, spaceParam, threw, spaceId, cookieWrites, cookie, reqCookies>>
  /\ UNCHANGED <<renderVars, clientVars, keyVars, sideVars>>

\* How a visit to the payment page ends.
PaymentResults == {"success", "cancel"}

\* The payment provider sends the tab back: to success_url after a payment,
\* to cancel_url otherwise.  Neither URL carries `_space`.
PaymentReturn(result) ==
  /\ path = "payment"
  /\ LET r == middleware(host, Null)
     IN  /\ path' = IF result = "success" THEN "/checkout/success" ELSE "/cart"
         /\ spaceParam' = Null
         /\ threw' = r.threw
         /\ spaceId' = r.spaceId
         /\ cookieWrites' = IF r.threw THEN 0 ELSE 1
         /\ cookie' = IF r.threw THEN cookie ELSE r.setCookie
         /\ reqCookies' = RequestCookies(cookie, r.setCookie)
  /\ mount' = TRUE
  /\ cart' = NoCart
  /\ paid' = (result = "success")
  /\ UNCHANGED <<itemPc, checkPc>>
  /\ UNCHANGED <<host, renderVars, clientVars, keyVars, sideVars>>
  /\ UNCHANGED <<storage, nextCart, addPc, addCartId, addSpace, addResult,
                 fetchPc, fetchKey, fetchId, createKey, lookupKey, clearKey>>

NextCart ==
  \/ \E q \in StoreParams, p \in CartPaths : CartNavigate(q, p)
  \/ MarkerExpires
  \/ AddToCartStart
  \/ \E o \in Outcomes : LookupDone(o)
  \/ \E o \in Outcomes : CreateDone(o)
  \/ FetchCartStart
  \/ \E o \in Outcomes : FetchCartDone(o)
  \/ SuccessMount

CartSpec == InitCart /\ [][NextCart]_vars

\* A tab on the storefront of tenant x, from the product page to the payment
\* and back; no request of this tab carries `_space`.
InitCheckout ==
  /\ InitCart
  /\ host = <<"x", ".rswag.online">>

NextCheckout ==
  \/ \E p \in CartPaths : CartNavigate(Null, p)
  \/ AddToCartStart
  \/ \E o \in Outcomes : LookupDone(o)
  \/ \E o \in Outcomes : CreateDone(o)
  \/ FetchCartStart
  \/ \E o \in Outcomes : FetchCartDone(o)
  \/ SuccessMount
  \/ \E q \in Quantities : updateQuantity(q)
  \/ \E o \in Outcomes : UpdateDone(o)
  \/ removeItem
  \/ \E o \in Outcomes : RemoveDone(o)
  \/ handleCheckout
  \/ \E o \in Outcomes : CheckoutDone(o)
  \/ \E r \in PaymentResults : PaymentReturn(r)

CheckoutSpec == InitCheckout /\ [][NextCheckout]_vars

----------------------------------------------------------------------------
\* Properties of the cart in local storage.

\* C11: on the storefront of one tenant (a production origin, where every
\* request resolves to the same tenant), a lookup by fetchCart and a clear
\* by the checkout-success page that follow the creation of a cart use the
\* key under which getOrCreateCart stored the cart id.
C11_SameKeyOnEveryPath ==
  (Hostname(host) \notin LocalHosts /\ createKey # Null) =>
     /\ lookupKey \in {Null, createKey}
     /\ clearKey \in {Null, createKey}

\* The tenant a cart key belongs to.
KeyTenant(key) == IF key = <<"cart_id">> THEN DefaultSpace ELSE SubSeq(key, 3, Len(key))

\* The tenant id under which the operation that takes this step was called.
OperationSpace ==
  IF addPc = "create" /\ addPc' = "idle" THEN addSpace
  ELSE IF fetchPc = "await" /\ fetchPc' = "idle" THEN KeyTenant(fetchKey)
  ELSE getSpaceIdFromCookie(cookie)

\* C12: a cart operation called while the marker is one tenant never
\* overwrites or removes the cart id stored under the key of another tenant.
C12_TenantCartsDisjoint ==
  [][\A k \in CartKeys :
       (storage[k] # NoCart /\ storage'[k] # storage[k])
          => KeyTenant(k) = TenantOf(OperationSpace)]_vars

----------------------------------------------------------------------------
\* Theme Injector.

\* THEME_VAR_MAP, in the order Object.entries walks it: <<role, CSS variable>>.
THEME_VAR_MAP ==
  << <<"primary", "--primary">>,
     <<"primary_foreground", "--primary-foreground">>,
     <<"secondary", "--secondary">>,
     <<"secondary_foreground", "--secondary-foreground">>,
     <<"background", "--background">>,
     <<"foreground", "--foreground">>,
     <<"card", "--card">>,
     <<"card_foreground", "--card-foreground">>,
     <<"popover", "--popover">>,
     <<"popover_foreground", "--popover-foreground">>,
     <<"muted", "--muted">>,
     <<"muted_foreground", "--muted-foreground">>,
     <<"accent", "--accent">>,
     <<"accent_foreground", "--accent-foreground">>,
     <<"destructive", "--destructive">>,
     <<"destructive_foreground", "--destructive-foreground">>,
     <<"border", "--border">>,
     <<"input", "--input">>,
     <<"ring", "--ring">> >>

\* theme[key]: undefined unless theme is an object that has the property.
Prop(t, key) ==
  IF t.kind = "object" /\ key \in DOMAIN t.roles THEN t.roles[key] ELSE Null

\* Variant: every role of the table passes the filter.
ValueTruthy_Always(v) == TRUE

\* JavaScript truthiness of a property value.
ValueTruthy(v) == Truthy(v) /\ v # NumberZero

\* `${value}`: how a template literal prints a property value.
TemplateText(v) ==
  CASE v = NumberZero -> <<"0">>
    [] v = NumberFive -> <<"5">>
    [] v = ObjectValue -> <<"[object Object]">>
    [] v = Null -> <<"undefined">>
    [] OTHER -> v

\* Array.prototype.join
Join(parts, sep) ==
  LET F[i \in 0..Len(parts)] ==
        IF i = 0 THEN <<>>
        ELSE IF i = 1 THEN parts[1]
        ELSE F[i - 1] \o sep \o parts[i]
  IN  F[Len(parts)]

\* themeToCSS(theme)
themeToCSS(t) ==
  LET kept == SelectSeq(THEME_VAR_MAP, LAMBDA e : ValueTruthy(Prop(t, e[1])))
      lines == [i \in 1..Len(kept) |->
                  <<kept[i][2], ": ">> \o TemplateText(Prop(t, kept[i][1])) \o <<";">>]
  IN  Join(lines, <<"\n    ">>)

\* JavaScript truthiness of a `theme` value.
ThemeTruthy(t) == t.kind \notin {"absent", "null", "emptystring"}

\* RootLayout: const themeCSS = space?.theme ? themeToCSS(space.theme) : "";
LayoutThemeCSS(t) == IF ThemeTruthy(t) THEN themeToCSS(t) ELSE <<>>

\* RootLayout: {themeCSS && (<style .../>)}
StyleBlock(css) == Truthy(css)

\* A theme as a SpaceConfig can carry it.
InitTheme ==
  /\ RequestIdle
  /\ host = Null
  /\ CartIdle
  /\ theme \in Themes
  /\ themeCSS = Null
  /\ themeBy = "none"
  /\ PageIdle
  /\ StudioIdle

\* themeToCSS is called on a theme (the caller has tested it for truthiness).
CallThemeToCSS ==
  /\ themeBy = "none"
  /\ ThemeTruthy(theme)
  /\ themeCSS' = themeToCSS(theme)
  /\ themeBy' = "themeToCSS"
  /\ UNCHANGED <<theme, requestVars, renderVars, clientVars, keyVars, cartVars, pageVars, studioVars>>

\* RootLayout computes the override block of a SpaceConfig with this theme.
RenderTheme ==
  /\ themeBy = "none"
  /\ themeCSS' = LayoutThemeCSS(theme)
  /\ themeBy' = "RootLayout"
  /\ UNCHANGED <<theme, requestVars, renderVars, clientVars, keyVars, cartVars, pageVars, studioVars>>

NextTheme == CallThemeToCSS \/ RenderTheme

ThemeSpec == InitTheme /\ [][NextTheme]_vars

\* The CSS variables of the table, and the role each belongs to.
CssVars == {THEME_VAR_MAP[i][2] : i \in 1..Len(THEME_VAR_MAP)}
RoleOfVar(cssVar) ==
  THEME_VAR_MAP[CHOOSE i \in 1..Len(THEME_VAR_MAP) : THEME_VAR_MAP[i][2] = cssVar][1]

\* A theme as the SpaceTheme interface declares it: an object whose
\* properties, where present, are strings.
WellTyped(t) ==
  /\ t.kind = "object"
  /\ \A k \in ThemeKeys : t.roles[k] \in {Null, <<>>, <<"#fff">>}

\* The roles of the table that are present and non-empty in a theme.
NonEmptyRoles(t) ==
  {THEME_VAR_MAP[i][1] : i \in {j \in 1..Len(THEME_VAR_MAP) : Prop(t, THEME_VAR_MAP[j][1]) \notin {Null, <<>>}}}

\* C14: for a theme of strings, the text themeToCSS returns consists of one
\* assignment `<variable>: <value>;` for each role of the table that is
\* present and non-empty, and of nothing else but the separators between
\* them: as many assignments as non-empty roles, no variable twice, no
\* variable outside the table.
C14_OneAssignmentPerRole ==
  (themeBy = "themeToCSS" /\ WellTyped(theme)) =>
     LET n == Cardinality(NonEmptyRoles(theme))
         at == {i \in 1..Len(themeCSS) : themeCSS[i] \in CssVars}
     IN  /\ Cardinality(at) = n
         /\ Len(themeCSS) = IF n = 0 THEN 0 ELSE 5 * n - 1
         /\ \A i \in at :
              /\ RoleOfVar(themeCSS[i]) \in NonEmptyRoles(theme)
              /\ i + 3 <= Len(themeCSS)
              /\ SubSeq(themeCSS, i + 1, i + 3)
                   = <<": ">> \o Prop(theme, RoleOfVar(themeCSS[i])) \o <<";">>
         /\ \A i \in at, j \in at : themeCSS[i] = themeCSS[j] => i = j

\* A theme with only primary and background (and a name the table does not
\* know) gives exactly two assignments.
C14_Witness ==
  /\ themeBy = "themeToCSS"
  /\ theme.kind = "object"
  /\ theme.roles = [k \in ThemeKeys |-> IF k = "ring" THEN Null ELSE <<"#fff">>]
  /\ themeCSS = <<"--primary", ": ", "#fff", ";", "\n    ",
                  "--background", ": ", "#fff", ";">>

\* C15: for a theme that is absent, null, empty or malformed (not an object,
\* or an object with a property that is not a string), RootLayout computes an
\* empty override text and renders no style block.
C15_NoOverrideUnlessWellFormed ==
  (themeBy = "RootLayout" /\ (~WellTyped(theme) \/ NonEmptyRoles(theme) = {})) =>
     (themeCSS = <<>> /\ ~StyleBlock(themeCSS))

----------------------------------------------------------------------------
\* Server renders: RootLayout, generateMetadata, HomePage, ProductsPage.

\* Markers a request can carry in its cookie store.
PageMarkers ==
  {Null} \cup {middleware(h, q).setCookie :
                 h \in {<<"localhost">>, <<".rswag.online">>}, q \in SpaceParams}

\* Answers of the backend to a request of a server component: res.ok with a
\* JSON body, !res.ok, fetch throws, res.ok with a body that is not JSON.
Answers == {"ok", "notok", "throw", "badjson"}

\* SpaceConfig bodies the registry serves: one with every field set and one
\* with the optional texts empty or missing.
FullConfig ==
  [kind |-> "object", name |-> <<"Acme">>, tagline |-> <<"Acme merch">>,
   description |-> <<"Acme description">>, footer_text |-> <<"Acme footer">>,
   logo_url |-> <<"/acme.png">>,
   theme |-> [kind |-> "object",
              roles |-> [k \in ThemeKeys |-> IF k = "primary" THEN <<"#fff">> ELSE Null]]]
SparseConfig ==
  [kind |-> "object", name |-> <<>>, tagline |-> Null, description |-> <<>>,
   footer_text |-> Null, logo_url |-> Null, theme |-> NoTheme]
TenantConfigs == {FullConfig, SparseConfig}

\* Product lists the catalog serves.
ProductLists == {<<>>, <<"sticker">>, <<"sticker", "shirt">>}

\* URLSearchParams.toString(): form encoding of a value.
FormEncode(s) == [i \in 1..Len(s) |-> IF s[i] = " " THEN "+" ELSE s[i]]

\* Variant: the space parameter is always set.
ProductsUrl_Always(id) == <<"/products", "?", "space", "=">> \o FormEncode(id)

\* getProducts: the URL it fetches.
ProductsUrl(id) ==
  IF Truthy(id) /\ id # DefaultSpace
  THEN <<"/products", "?", "space", "=">> \o FormEncode(id)
  ELSE <<"/products">>

\* getSpaceConfig: the URL it fetches.
SpaceUrl(id) == <<"/spaces/">> \o id

\* getProducts: the promise it returns, given the backend's answer.  The
\* body is parsed by `return res.json()`: the promise of json() is returned
\* without await, so its rejection passes the catch block by.
ProductsPromise(a, list) ==
  CASE a = "ok" -> [state |-> "fulfilled", value |-> list]
    [] a = "badjson" -> [state |-> "rejected", value |-> Null]
    [] OTHER -> [state |-> "fulfilled", value |-> <<>>]

\* Variant: a registry miss makes getSpaceConfig throw.
ConfigPromise_MissThrows(a, cfg) ==
  CASE a = "ok" -> [state |-> "fulfilled", value |-> cfg]
    [] a \in {"badjson", "notok"} -> [state |-> "rejected", value |-> NullConfig]
    [] OTHER -> [state |-> "fulfilled", value |-> NullConfig]

\* getSpaceConfig: the promise it returns (`if (res.ok) return res.json()`).
ConfigPromise(a, cfg) ==
  CASE a = "ok" -> [state |-> "fulfilled", value |-> cfg]
    [] a = "badjson" -> [state |-> "rejected", value |-> NullConfig]
    [] OTHER -> [state |-> "fulfilled", value |-> NullConfig]

\* Which components call getProducts, and which getSpaceConfig.
NeedsProducts(c) == c \in {"HomePage", "ProductsPage"}
NeedsConfig(c) == c \in {"RootLayout", "generateMetadata", "HomePage"}

\* Texts used when the SpaceConfig has none.
DefaultName == <<"rSwag">>
DefaultTagline == <<"Merch for the rSpace Ecosystem">>
DefaultDescription == <<"Design and order custom merchandise.">>
DefaultFooter == <<"rSpace. Infrastructure for the commons.">>
HomeDescription == <<"Merch for the rSpace ecosystem. Stickers, shirts, and more">>

\* What a component renders from the results of its calls.
RenderOutput(c, prods, sp) ==
  CASE c = "RootLayout" ->
         [NoOutput EXCEPT !.name = OrElse(sp.name, DefaultName),
                          !.footerText = OrElse(sp.footer_text, DefaultFooter),
                          !.logoUrl = sp.logo_url,
                          !.themeCSS = LayoutThemeCSS(sp.theme)]
    [] c = "generateMetadata" ->
         [NoOutput EXCEPT !.name = OrElse(sp.name, DefaultName),
                          !.tagline = OrElse(sp.tagline, DefaultTagline),
                          !.title = OrElse(sp.name, DefaultName) \o <<" - ">>
                                      \o OrElse(sp.tagline, DefaultTagline),
                          !.description = OrElse(sp.description, DefaultDescription)]
    [] c = "HomePage" ->
         [NoOutput EXCEPT !.name = OrElse(sp.name, DefaultName),
                          !.description = OrElse(sp.description, HomeDescription),
                          !.products = prods]
    [] OTHER -> [NoOutput EXCEPT !.products = prods]

\* States of the promises the component awaits.
Awaited ==
  (IF NeedsProducts(renderedBy) THEN {prodPc} ELSE {})
    \cup (IF NeedsConfig(renderedBy) THEN {confPc} ELSE {})

\* Variant: the component goes on as soon as one promise has settled.
Ready_Race == Awaited \cap {"fulfilled", "rejected"} # {}

\* await / await Promise.all([...]): goes on when every promise is
\* fulfilled, or as soon as one is rejected.
Ready == "rejected" \in Awaited \/ Awaited = {"fulfilled"}

InitPage == Init

\* A component starts to render for a request whose cookie store holds the
\* marker m: it reads the tenant id and sends its requests.
PageStart(c, m) ==
  /\ pageState = "none"
  /\ pageState' = "pending"
  /\ reqCookies' = m
  /\ renderedBy' = c
  /\ serverSpaceId' = ServerSpaceId(m)
  /\ IF NeedsProducts(c)
     THEN /\ catalogUrl' = ProductsUrl(ServerSpaceId(m))
          /\ prodAnswer' = "pending"
          /\ prodPc' = "pending"
     ELSE UNCHANGED <<catalogUrl, prodAnswer, prodPc>>
  /\ IF NeedsConfig(c)
     THEN /\ configUrl' = SpaceUrl(ServerSpaceId(m))
          /\ confAnswer' = "pending"
          /\ confPc' = "pending"
     ELSE UNCHANGED <<configUrl, confAnswer, confPc>>
  /\ UNCHANGED <<path, host, spaceParam, threw, spaceId, cookieWrites, cookie>>
  /\ UNCHANGED <<clientVars, keyVars, cartVars, themeVars, studioVars>>
  /\ UNCHANGED <<products, space, firstSettled, output>>

\* The catalog answers the request of getProducts.
CatalogAnswer(a, list) ==
  /\ prodAnswer = "pending"
  /\ a # "ok" => list = <<>>
  /\ prodAnswer' = a
  /\ prodPc' = ProductsPromise(a, list).state
  /\ products' = ProductsPromise(a, list).value
  /\ firstSettled' = IF firstSettled = "none" THEN "products" ELSE firstSettled
  /\ UNCHANGED <<requestVars, renderVars, clientVars, keyVars, cartVars, themeVars, studioVars>>
  /\ UNCHANGED <<pageState, catalogUrl, configUrl, confAnswer, confPc, space, output>>

\* The registry answers the request of getSpaceConfig; it answers OK only
\* for a tenant it knows.
RegistryAnswer(a, cfg) ==
  /\ confAnswer = "pending"
  /\ a = "ok" => serverSpaceId \in SpaceRegistry
  /\ a # "ok" => cfg = FullConfig
  /\ confAnswer' = a
  /\ confPc' = ConfigPromise(a, cfg).state
  /\ space' = ConfigPromise(a, cfg).value
  /\ firstSettled' = IF firstSettled = "none" THEN "config" ELSE firstSettled
  /\ UNCHANGED <<requestVars, renderVars, clientVars, keyVars, cartVars, themeVars, studioVars>>
  /\ UNCHANGED <<pageState, catalogUrl, prodAnswer, prodPc, products, configUrl, output>>

\* The component goes on after its await: it renders, or the rejection
\* leaves it as an exception.
PageFinish ==
  /\ pageState = "pending"
  /\ Ready
  /\ IF "rejected" \in Awaited
     THEN /\ pageState' = "error"
          /\ UNCHANGED output
     ELSE /\ pageState' = "done"
          /\ output' = RenderOutput(renderedBy, products, space)
  /\ UNCHANGED <<requestVars, renderVars, clientVars, keyVars, cartVars, themeVars, studioVars>>
  /\ UNCHANGED <<catalogUrl, prodAnswer, prodPc, products,
                 configUrl, confAnswer, confPc, space, firstSettled>>

NextPage ==
  \/ \E c \in Components, m \in PageMarkers : PageStart(c, m)
  \/ \E a \in Answers, list \in ProductLists : CatalogAnswer(a, list)
  \/ \E a \in Answers, cfg \in TenantConfigs : RegistryAnswer(a, cfg)
  \/ PageFinish

PageSpec == InitPage /\ [][NextPage]_vars

\* The runtime runs a continuation whose await has settled; nothing makes
\* the backend answer.
PageFairSpec == PageSpec /\ WF_vars(PageFinish)

----------------------------------------------------------------------------
\* Properties of the server renders.

\* C13: the catalog request carries space=<id> exactly when the tenant id
\* read from the marker is not "default", and then the cart key derived from
\* the same marker is cart_id_<id>; for the marker "default", an empty marker
\* or no marker the request is /products with no parameter and the cart key
\* is cart_id.  (In the URL the id is form-encoded, in the key it appears as
\* the cookie holds it.)
C13_CatalogCarriesSpace ==
  catalogUrl # Null =>
     LET key == getCartKey(getSpaceIdFromCookie(reqCookies))
     IN  IF serverSpaceId = DefaultSpace
         THEN /\ catalogUrl = <<"/products">>
              /\ key = <<"cart_id">>
         ELSE /\ catalogUrl = <<"/products", "?", "space", "=">> \o FormEncode(serverSpaceId)
              /\ key = <<"cart_id", "_">> \o encodeURIComponent(serverSpaceId)

C13_Witness ==
  /\ reqCookies = <<"x">>
  /\ renderedBy = "ProductsPage"
  /\ catalogUrl = <<"/products", "?", "space", "=", "x">>
  /\ getCartKey(getSpaceIdFromCookie(reqCookies)) = <<"cart_id", "_", "x">>

\* C16: for the default tenant getSpaceConfig yields a TenantConfig whatever
\* the backend answers.
C16_DefaultAlwaysConfigured ==
  (serverSpaceId = DefaultSpace /\ confPc \in {"fulfilled", "rejected"}) =>
     (confPc = "fulfilled" /\ space.kind = "object")

\* C17: when the registry answers non-OK, getSpaceConfig returns null, and
\* (unless the catalog call of the same page fails on its own) RootLayout,
\* generateMetadata and HomePage render, with the default name, tagline,
\* description and footer text and with no theme override.
C17_MissRendersDefaults ==
  confAnswer = "notok" =>
     /\ confPc = "fulfilled"
     /\ space = NullConfig
     /\ (pageState \in {"done", "error"} /\ prodPc # "rejected") =>
          /\ pageState = "done"
          /\ output.name = DefaultName
          /\ renderedBy = "RootLayout" =>
               /\ output.footerText = DefaultFooter
               /\ output.themeCSS = <<>>
               /\ ~StyleBlock(output.themeCSS)
          /\ renderedBy = "generateMetadata" =>
               /\ output.tagline = DefaultTagline
               /\ output.description = DefaultDescription
          /\ renderedBy = "HomePage" =>
               output.description = HomeDescription

\* A tenant the registry does not know: RootLayout renders the defaults.
C17_Witness ==
  /\ serverSpaceId = <<"x", " ">>
  /\ confAnswer = "notok"
  /\ renderedBy = "RootLayout"
  /\ pageState = "done"
  /\ output.footerText = DefaultFooter

\* C18: whatever goes wrong with a request (fetch throws, non-OK, OK with a
\* body that is not JSON), getSpaceConfig yields null, getProducts yields the
\* empty list and no render ends with an exception.
C18_FailuresAbsorbed ==
  /\ confAnswer \in {"notok", "throw", "badjson"} =>
       (confPc = "fulfilled" /\ space = NullConfig)
  /\ prodAnswer \in {"notok", "throw", "badjson"} =>
       (prodPc = "fulfilled" /\ products = <<>>)
  /\ pageState # "error"

\* C19: a render that waits for the backend eventually completes.
C19_RenderCompletes ==
  (pageState = "pending") ~> (pageState \in {"done", "error"})

\* C20: HomePage sends the catalog request and the registry request together
\* and for the same tenant id, and what it renders is determined by the two
\* results alone, whichever settled first: with both fulfilled, the name and
\* description of the config (or the defaults) and the product list; with one
\* rejected, the exception.
C20_OrderIndependent ==
  (renderedBy = "HomePage" /\ pageState # "none") =>
     /\ catalogUrl = ProductsUrl(serverSpaceId)
     /\ configUrl = SpaceUrl(serverSpaceId)
     /\ prodPc # "none" /\ confPc # "none"
     /\ pageState = "done" =>
          /\ prodPc = "fulfilled" /\ confPc = "fulfilled"
          /\ output.name = OrElse(space.name, DefaultName)
          /\ output.description = OrElse(space.description, HomeDescription)
          /\ output.products = products
     /\ pageState = "error" => (prodPc = "rejected" \/ confPc = "rejected")

\* The registry answered before the catalog, and the page shows both.
C20_Witness ==
  /\ renderedBy = "HomePage"
  /\ pageState = "done"
  /\ firstSettled = "config"
  /\ space = FullConfig
  /\ products = <<"sticker", "shirt">>
  /\ output.name = <<"Acme">>
  /\ output.products = <<"sticker", "shirt">>

----------------------------------------------------------------------------
\* The upload form of UploadPage.

\* String.prototype.startsWith
startsWith(s, prefix) ==
  Len(s) >= Len(prefix) /\ SubSeq(s, 1, Len(prefix)) = prefix

\* f.name.replace(/\.[^.]+$/, ""): the last dot and what follows it, when
\* something follows it.
StripExtension(s) ==
  LET dots == {i \in 1..Len(s) : s[i] = "."}
  IN  IF dots = {} THEN s
      ELSE LET last == CHOOSE i \in dots : \A j \in dots : j <= i
           IN  IF last < Len(s) THEN SubSeq(s, 1, last - 1) ELSE s

\* .replace(/[-_]/g, " ")
DashesToSpaces(s) == [i \in 1..Len(s) |-> IF s[i] \in {"-", "_"} THEN " " ELSE s[i]]

\* The design name handleFile derives from a file name.
NameFromFile(fileName) == DashesToSpaces(StripExtension(fileName))

\* handleFile, line 150: f.type.startsWith("image/")
IsImage(type) == startsWith(type, <<"image/">>)

\* The mockup effect after a render that set `preview` to p: with no preview
\* the mockups are reset; with one, a generateMockup call is started for
\* every entry of MOCKUP_CONFIGS and the mockups in state stay as they are.
MockupEffect(p) ==
  IF p = NoPreview
  THEN /\ mockups' = [t \in ProductTypes |-> NoPreview]
       /\ UNCHANGED pending
  ELSE /\ pending' = [t \in ProductTypes |-> pending[t] \cup {p}]
       /\ UNCHANGED mockups

\* handleFile(f), and the mockup effect when it has set a new preview.
handleFile(f) ==
  /\ offered' = f
  /\ IF ~IsImage(f.type)
     THEN /\ uploadError' = NotAnImage
          /\ UNCHANGED <<file, preview, uploadName, urls, mockups, pending>>
     ELSE IF f.size > TenMB
     THEN /\ uploadError' = TooLarge
          /\ UNCHANGED <<file, preview, uploadName, urls, mockups, pending>>
     ELSE /\ urls < MaxUrls
          /\ uploadError' = Null
          /\ file' = f
          /\ urls' = urls + 1
          /\ preview' = urls + 1
          /\ uploadName' = IF ~Truthy(uploadName) THEN NameFromFile(f.name) ELSE uploadName
          /\ MockupEffect(urls + 1)

\* The file input changes: the picker lists the files of the accept
\* attribute, and the chosen one goes to handleFile.
FileInputChange(f) ==
  /\ uploadedDesign = NoDesign
  /\ f.type \in AcceptTypes
  /\ handleFile(f)
  /\ UNCHANGED isDragging
  /\ UNCHANGED notFormVars

\* A file is dragged over the drop zone, or away from it.  The zone takes no
\* pointer events once a design is uploaded.
DragOver ==
  /\ uploadedDesign = NoDesign
  /\ isDragging' = TRUE
  /\ offered' = NoFile
  /\ UNCHANGED <<file, preview, uploadName, uploadError, urls, mockups, pending>>
  /\ UNCHANGED notFormVars

DragLeave ==
  /\ uploadedDesign = NoDesign
  /\ isDragging' = FALSE
  /\ offered' = NoFile
  /\ UNCHANGED <<file, preview, uploadName, uploadError, urls, mockups, pending>>
  /\ UNCHANGED notFormVars

\* handleDrop: any file can be dropped.
handleDrop(f) ==
  /\ uploadedDesign = NoDesign
  /\ isDragging' = FALSE
  /\ handleFile(f)
  /\ UNCHANGED notFormVars

\* The design name is typed into the name input.
TypedNames == {<<>>, <<"My Custom Logo">>}
NameInput(n) ==
  /\ ~isUploading
  /\ uploadedDesign = NoDesign
  /\ uploadName' = n
  /\ offered' = NoFile
  /\ UNCHANGED <<file, preview, uploadError, isDragging, urls, mockups, pending>>
  /\ UNCHANGED notFormVars

\* The Remove button under the preview, and the mockup effect after it.
RemoveFile ==
  /\ preview # NoPreview
  /\ uploadedDesign = NoDesign
  /\ file' = NoFile
  /\ preview' = NoPreview
  /\ MockupEffect(NoPreview)
  /\ offered' = NoFile
  /\ UNCHANGED <<uploadName, uploadError, isDragging, urls>>
  /\ UNCHANGED notFormVars

InitForm == Init

NextForm ==
  \/ \E f \in Files : FileInputChange(f)
  \/ DragOver
  \/ DragLeave
  \/ \E f \in Files : handleDrop(f)
  \/ \E n \in TypedNames : NameInput(n)
  \/ RemoveFile

FormSpec == InitForm /\ [][NextForm]_vars

\* The files the form says it takes: PNG, JPEG or WebP of at most 10 MB.
Acceptable(f) == f.type \in AcceptTypes /\ f.size <= TenMB

\* C21: every file handed to handleFile, by the picker or by a drop, becomes
\* the selected file and the preview exactly when it is a PNG, JPEG or WebP
\* image of at most 10 MB; any other file sets an error message and leaves
\* the selected file and the preview as they were.
C21_OnlyListedImagesAccepted ==
  [][offered' # NoFile =>
       IF Acceptable(offered')
       THEN file' = offered' /\ preview' = urls' /\ urls' = urls + 1
       ELSE uploadError' # Null /\ file' = file /\ preview' = preview]_vars

----------------------------------------------------------------------------
\* The product previews of UploadPage.

\* Files a run of the previews selects: two the form takes, one it refuses.
PreviewFiles ==
  {f \in Files : \/ f.type = <<"image/", "png">> /\ f.size = 1
                 \/ f.type = <<"image/", "webp">> /\ f.size = TenMB
                 \/ f.type = <<"text/", "plain">> /\ f.size = 1}

\* A generateMockup call of the effect resolves: the callback of line 141
\* merges its result into the mockups in state.
MockupResolved(t, p) ==
  /\ p \in pending[t]
  /\ pending' = [pending EXCEPT ![t] = @ \ {p}]
  /\ mockups' = [mockups EXCEPT ![t] = p]
  /\ offered' = NoFile
  /\ UNCHANGED <<file, preview, uploadName, uploadError, isDragging, urls>>
  /\ UNCHANGED notFormVars

\* It rejects (an image failed to load): the catch of line 142 does nothing.
MockupRejected(t, p) ==
  /\ p \in pending[t]
  /\ pending' = [pending EXCEPT ![t] = @ \ {p}]
  /\ offered' = NoFile
  /\ UNCHANGED <<file, preview, uploadName, uploadError, isDragging, urls, mockups>>
  /\ UNCHANGED notFormVars

InitMockups == Init

NextMockups ==
  \/ \E f \in PreviewFiles : FileInputChange(f)
  \/ \E f \in PreviewFiles : handleDrop(f)
  \/ RemoveFile
  \/ \E t \in ProductTypes, p \in 1..MaxUrls : MockupResolved(t, p)
  \/ \E t \in ProductTypes, p \in 1..MaxUrls : MockupRejected(t, p)

MockupSpec == InitMockups /\ [][NextMockups]_vars

\* C29: every mockup held in state was generated from the current preview,
\* and no mockup is held while there is no preview.
C29_MockupsOfCurrentPreview ==
  \A t \in ProductTypes : mockups[t] \in {NoPreview, preview}

----------------------------------------------------------------------------
\* generateMockup: one design composed onto one product template.

\* Variant: onBothLoaded goes on after the first load.
LoadsNeeded_One == Cardinality({"template"})

\* onBothLoaded, line 623: if (loaded < 2) return
LoadsNeeded == 2

\* Where the design is drawn: scaled to fit the design area with its aspect
\* ratio kept, and centred in it.  scale = min(width / iw, height / ih), so
\* the width is the limit exactly when width * ih <= height * iw.
DesignBox(productType, size) ==
  LET a == DesignArea(productType)
      x == a[1]
      y == a[2]
      width == a[3]
      height == a[4]
      iw == size[1]
      ih == size[2]
      dw == IF width * ih <= height * iw THEN width ELSE (iw * height) \div ih
      dh == IF width * ih <= height * iw THEN (ih * width) \div iw ELSE height
  IN  <<x + (width - dw) \div 2, y + (height - dh) \div 2, dw, dh>>

\* The two drawImage calls of onBothLoaded.
DesignDraw == <<"design">> \o DesignBox(config, designSize)
TemplateDraw == <<"template", 0, 0, CanvasSize, CanvasSize>>

\* resolve and reject settle a promise only while it is pending.
Settle(how) ==
  IF mockupPromise = "pending"
  THEN /\ mockupPromise' = how
       /\ settlements' = Append(settlements, how)
  ELSE UNCHANGED <<mockupPromise, settlements>>

\* A call of generateMockup, ready to be made.
InitComposite ==
  /\ RequestIdle
  /\ host = Null
  /\ CartIdle
  /\ ThemeIdle
  /\ PageIdle
  /\ FormIdle
  /\ HandlerIdle
  /\ FlagsIdle
  /\ ctx \in BOOLEAN
  /\ config \in ProductTypes
  /\ designSize \in DesignSizes
  /\ templateImg = "none"
  /\ designImg = "none"
  /\ loaded = 0
  /\ loadOrder = <<>>
  /\ drawn = <<>>
  /\ mockupPromise = "none"
  /\ settlements = <<>>

\* generateMockup is called: without a context it rejects at once, with one
\* it sets the two image sources.
generateMockup ==
  /\ mockupPromise = "none"
  /\ IF ~ctx
     THEN /\ mockupPromise' = "rejected"
          /\ settlements' = <<"rejected">>
          /\ UNCHANGED <<templateImg, designImg>>
     ELSE /\ mockupPromise' = "pending"
          /\ templateImg' = "loading"
          /\ designImg' = "loading"
          /\ UNCHANGED settlements
  /\ UNCHANGED <<ctx, config, designSize, loaded, loadOrder, drawn>>
  /\ UNCHANGED notCompositeVars

\* onBothLoaded
onBothLoaded ==
  /\ loaded' = loaded + 1
  /\ IF loaded + 1 < LoadsNeeded
     THEN UNCHANGED <<drawn, mockupPromise, settlements>>
     ELSE /\ drawn' = drawn \o <<DesignDraw, TemplateDraw>>
          /\ Settle("resolved")

\* templateImg.onload
TemplateLoaded ==
  /\ templateImg = "loading"
  /\ templateImg' = "loaded"
  /\ loadOrder' = Append(loadOrder, "template")
  /\ onBothLoaded
  /\ UNCHANGED <<ctx, config, designSize, designImg>>
  /\ UNCHANGED notCompositeVars

\* designImg.onload
DesignLoaded ==
  /\ designImg = "loading"
  /\ designImg' = "loaded"
  /\ loadOrder' = Append(loadOrder, "design")
  /\ onBothLoaded
  /\ UNCHANGED <<ctx, config, designSize, templateImg>>
  /\ UNCHANGED notCompositeVars

\* templateImg.onerror
TemplateFailed ==
  /\ templateImg = "loading"
  /\ templateImg' = "failed"
  /\ Settle("rejected")
  /\ UNCHANGED <<ctx, config, designSize, designImg, loaded, loadOrder, drawn>>
  /\ UNCHANGED notCompositeVars

\* designImg.onerror
DesignFailed ==
  /\ designImg = "loading"
  /\ designImg' = "failed"
  /\ Settle("rejected")
  /\ UNCHANGED <<ctx, config, designSize, templateImg, loaded, loadOrder, drawn>>
  /\ UNCHANGED notCompositeVars

NextComposite ==
  \/ generateMockup
  \/ TemplateLoaded
  \/ DesignLoaded
  \/ TemplateFailed
  \/ DesignFailed

CompositeSpec == InitComposite /\ [][NextComposite]_vars

\* C23: the promise of generateMockup is resolved exactly when both images
\* have loaded, and then the design has been drawn first and the template
\* on top of it and nothing else; it is rejected when there is no canvas
\* context or an image has failed to load; it is settled at most once, and
\* nothing is drawn before both images have loaded.
C23_ResolvesWhenBothLoaded ==
  /\ mockupPromise = "resolved" <=> (templateImg = "loaded" /\ designImg = "loaded")
  /\ mockupPromise = "resolved" => drawn = <<DesignDraw, TemplateDraw>>
  /\ mockupPromise # "resolved" => drawn = <<>>
  /\ (mockupPromise # "none" /\ ~ctx) => mockupPromise = "rejected"
  /\ (templateImg = "failed" \/ designImg = "failed") => mockupPromise = "rejected"
  /\ Len(settlements) <= 1
  /\ mockupPromise \in {"resolved", "rejected"} <=> settlements = <<mockupPromise>>

\* The template loads first, the design second, and the mockup is returned
\* with the design underneath.
C23_Witness ==
  /\ loadOrder = <<"template", "design">>
  /\ mockupPromise = "resolved"
  /\ drawn[1][1] = "design"
  /\ drawn[2][1] = "template"

----------------------------------------------------------------------------
\* Properties of getOrCreateCart and of the removal of the stored cart id.

\* The step is a return of getOrCreateCart.
AddReturns == addPc # "idle" /\ addPc' = "idle"

\* C24: when getOrCreateCart returns after an OK lookup it returns the id it
\* read and local storage is as it was; when it returns after an OK creation
\* the new id is stored under the key of the marker; when the creation fails
\* it returns null and local storage is as it was; and an id it returns is
\* the value stored under the key it read (lookup) or wrote (creation).
C24_ReturnedIdIsStored ==
  [][AddReturns =>
       /\ (addPc = "lookup" =>
             /\ addResult' = addCartId
             /\ storage' = storage)
       /\ (addPc = "create" /\ addResult' # NoCart =>
             /\ createKey' = getCartKey(getSpaceIdFromCookie(cookie))
             /\ storage' = [storage EXCEPT ![createKey'] = addResult'])
       /\ (addPc = "create" /\ addResult' = NoCart => storage' = storage)
       /\ (addResult' # NoCart =>
             storage'[IF addPc = "lookup" THEN getCartKey(addSpace) ELSE createKey']
               = addResult')]_vars

\* C22: the checkout-success page removes a stored cart id only when the
\* page was loaded by the redirect that follows a completed payment.
C22_ClearedOnlyAfterPayment ==
  [][(path = "/checkout/success" /\ mount /\ ~mount' /\ storage' # storage) => paid]_vars

\* The removal of a stored cart id: the fetchCart answer that causes it, if any.
RemovedBy ==
  IF fetchPc = "await" /\ fetchPc' = "idle" THEN "fetchCart"
  ELSE IF path = "/checkout/success" /\ mount /\ ~mount' THEN "CheckoutSuccessPage"
  ELSE "other"

\* C25: an item of local storage is removed only by the checkout-success
\* page as it mounts, or by fetchCart when the backend answers non-OK for the
\* very id that is stored; every other step leaves local storage without
\* removals, and the item and checkout handlers leave it unchanged.
C25_RemovedOnlyByFetchOrSuccess ==
  [][/\ \A k \in CartKeys :
          (storage[k] # NoCart /\ storage'[k] = NoCart) =>
             \/ RemovedBy = "CheckoutSuccessPage"
             \/ RemovedBy = "fetchCart" /\ k = fetchKey /\ storage[k] = fetchId
     /\ (itemPc' # itemPc \/ checkPc' # checkPc) => storage' = storage]_vars

----------------------------------------------------------------------------
\* DesignPage and UploadPage: a design is made, put in the store or discarded.

\* What the steps of the two pages leave alone.
notHandlerVars == <<storeVars, compositeVars, flagVars>>
designOnly == <<designName, concept, generatedDesign, isGenerating, designError>>
uploadOnly == <<uploadedDesign, isUploading>>

\* Variant: a handler goes on as after an OK answer whatever the answer.
Succeeded_Always(o) == TRUE

\* The fetch did not throw and response.ok holds.
Succeeded(o) == o = "ok"

\* err.message in the catch: of the Error thrown for a non-OK answer (its
\* fallback text, the answer carrying no detail), or of the failed fetch.
FailureMessage(fallback, o) == IF o = "notok" THEN fallback ELSE <<"Failed to fetch">>

\* The page renders the activate and discard buttons for a design.
OffersActions(design) == design.status = "draft"

\* Texts of the name and concept inputs of DesignPage.
DesignTexts == {<<>>, <<"text">>}

\* The name and concept inputs of DesignPage (disabled while generating).
DesignInput(n, c) ==
  /\ studioPage = "design"
  /\ ~isGenerating
  /\ designName' = n
  /\ concept' = c
  /\ UNCHANGED <<studioPage, generatedDesign, isGenerating, designError, uploadOnly,
                 isActivating, activateOf, deleting, slugs, discarded, lastOutcome>>
  /\ UNCHANGED <<formVars, notHandlerVars>>

\* DesignPage.handleGenerate (the submit button needs a name and a concept).
handleGenerate ==
  /\ studioPage = "design"
  /\ ~isGenerating
  /\ Truthy(designName)
  /\ Truthy(concept)
  /\ isGenerating' = TRUE
  /\ designError' = Null
  /\ generatedDesign' = NoDesign
  /\ UNCHANGED <<studioPage, designName, concept, uploadOnly,
                 isActivating, activateOf, deleting, slugs, discarded, lastOutcome>>
  /\ UNCHANGED <<formVars, notHandlerVars>>

\* POST /design/generate is answered; a new design is a draft.
GenerateDone(o) ==
  /\ studioPage = "design"
  /\ isGenerating
  /\ Succeeded(o) => slugs < MaxDesigns
  /\ IF Succeeded(o)
     THEN /\ generatedDesign' = Draft(slugs + 1)
          /\ slugs' = slugs + 1
          /\ UNCHANGED designError
     ELSE /\ designError' = FailureMessage(<<"Failed to generate design">>, o)
          /\ UNCHANGED <<generatedDesign, slugs>>
  /\ isGenerating' = FALSE
  /\ lastOutcome' = o
  /\ UNCHANGED <<studioPage, designName, concept, uploadOnly,
                 isActivating, activateOf, deleting, discarded>>
  /\ UNCHANGED <<formVars, notHandlerVars>>

\* DesignPage.handleActivate
DesignActivate ==
  /\ studioPage = "design"
  /\ OffersActions(generatedDesign)
  /\ ~isActivating
  /\ isActivating' = TRUE
  /\ designError' = Null
  /\ activateOf' = generatedDesign
  /\ UNCHANGED <<studioPage, designName, concept, generatedDesign, isGenerating,
                 uploadOnly, deleting, slugs, discarded, lastOutcome>>
  /\ UNCHANGED <<formVars, notHandlerVars>>

\* POST /design/{slug}/activate is answered: line 77 sets the design the call
\* closed over, with status "active".
DesignActivateDone(o) ==
  /\ studioPage = "design"
  /\ activateOf # NoDesign
  /\ IF Succeeded(o)
     THEN /\ generatedDesign' = [activateOf EXCEPT !.status = "active"]
          /\ UNCHANGED designError
     ELSE /\ designError' = FailureMessage(<<"Failed to activate design">>, o)
          /\ UNCHANGED generatedDesign
  /\ isActivating' = FALSE
  /\ activateOf' = NoDesign
  /\ lastOutcome' = o
  /\ UNCHANGED <<studioPage, designName, concept, isGenerating, uploadOnly,
                 deleting, slugs, discarded>>
  /\ UNCHANGED <<formVars, notHandlerVars>>

\* DesignPage.handleDelete (one request per design at a time).
DesignDelete ==
  /\ studioPage = "design"
  /\ OffersActions(generatedDesign)
  /\ generatedDesign.slug \notin deleting
  /\ deleting' = deleting \cup {generatedDesign.slug}
  /\ UNCHANGED <<studioPage, designOnly, uploadOnly,
                 isActivating, activateOf, slugs, discarded, lastOutcome>>
  /\ UNCHANGED <<formVars, notHandlerVars>>

\* DELETE /design/{slug} is answered.
DesignDeleteDone(s, o) ==
  /\ studioPage = "design"
  /\ s \in deleting
  /\ IF Succeeded(o)
     THEN /\ generatedDesign' = NoDesign
          /\ designName' = <<>>
          /\ concept' = <<>>
          /\ discarded' = discarded \cup {s}
          /\ UNCHANGED designError
     ELSE /\ designError' = FailureMessage(<<"Failed to delete design">>, o)
          /\ UNCHANGED <<generatedDesign, designName, concept, discarded>>
  /\ deleting' = deleting \ {s}
  /\ lastOutcome' = o
  /\ UNCHANGED <<studioPage, isGenerating, uploadOnly, isActivating, activateOf, slugs>>
  /\ UNCHANGED <<formVars, notHandlerVars>>

\* UploadPage.handleUpload (the submit button is rendered while no design is
\* uploaded, and needs a file and a name).
handleUpload ==
  /\ studioPage = "upload"
  /\ uploadedDesign = NoDesign
  /\ ~isUploading
  /\ file # NoFile
  /\ Truthy(uploadName)
  /\ isUploading' = TRUE
  /\ uploadError' = Null
  /\ offered' = NoFile
  /\ UNCHANGED <<file, preview, uploadName, isDragging, urls, mockups, pending>>
  /\ UNCHANGED <<studioPage, designOnly, uploadedDesign,
                 isActivating, activateOf, deleting, slugs, discarded, lastOutcome>>
  /\ UNCHANGED notHandlerVars

\* POST /design/upload is answered.
UploadDone(o) ==
  /\ studioPage = "upload"
  /\ isUploading
  /\ Succeeded(o) => slugs < MaxDesigns
  /\ IF Succeeded(o)
     THEN /\ uploadedDesign' = Draft(slugs + 1)
          /\ slugs' = slugs + 1
          /\ UNCHANGED uploadError
     ELSE /\ uploadError' = FailureMessage(<<"Upload failed">>, o)
          /\ UNCHANGED <<uploadedDesign, slugs>>
  /\ isUploading' = FALSE
  /\ lastOutcome' = o
  /\ offered' = NoFile
  /\ UNCHANGED <<file, preview, uploadName, isDragging, urls, mockups, pending>>
  /\ UNCHANGED <<studioPage, designOnly, isActivating, activateOf, deleting, discarded>>
  /\ UNCHANGED notHandlerVars

\* UploadPage.handleActivate
UploadActivate ==
  /\ studioPage = "upload"
  /\ OffersActions(uploadedDesign)
  /\ ~isActivating
  /\ isActivating' = TRUE
  /\ uploadError' = Null
  /\ activateOf' = uploadedDesign
  /\ offered' = NoFile
  /\ UNCHANGED <<file, preview, uploadName, isDragging, urls, mockups, pending>>
  /\ UNCHANGED <<studioPage, designOnly, uploadOnly, deleting, slugs, discarded, lastOutcome>>
  /\ UNCHANGED notHandlerVars

\* POST /design/{slug}/activate is answered: line 225 sets the design the
\* call closed over, with status "active".
UploadActivateDone(o) ==
  /\ studioPage = "upload"
  /\ activateOf # NoDesign
  /\ IF Succeeded(o)
     THEN /\ uploadedDesign' = [activateOf EXCEPT !.status = "active"]
          /\ UNCHANGED uploadError
     ELSE /\ uploadError' = FailureMessage(<<"Failed to activate design">>, o)
          /\ UNCHANGED uploadedDesign
  /\ isActivating' = FALSE
  /\ activateOf' = NoDesign
  /\ lastOutcome' = o
  /\ offered' = NoFile
  /\ UNCHANGED <<file, preview, uploadName, isDragging, urls, mockups, pending>>
  /\ UNCHANGED <<studioPage, designOnly, isUploading, deleting, slugs, discarded>>
  /\ UNCHANGED notHandlerVars

\* UploadPage.handleDelete (one request per design at a time).
UploadDelete ==
  /\ studioPage = "upload"
  /\ OffersActions(uploadedDesign)
  /\ uploadedDesign.slug \notin deleting
  /\ deleting' = deleting \cup {uploadedDesign.slug}
  /\ UNCHANGED formVars
  /\ UNCHANGED <<studioPage, designOnly, uploadOnly,
                 isActivating, activateOf, slugs, discarded, lastOutcome>>
  /\ UNCHANGED notHandlerVars

\* resetForm, and the mockup effect after it.
resetForm ==
  /\ file' = NoFile
  /\ preview' = NoPreview
  /\ uploadName' = <<>>
  /\ MockupEffect(NoPreview)
  /\ uploadedDesign' = NoDesign
  /\ uploadError' = Null

\* DELETE /design/{slug} is answered.
UploadDeleteDone(s, o) ==
  /\ studioPage = "upload"
  /\ s \in deleting
  /\ IF Succeeded(o)
     THEN /\ resetForm
          /\ discarded' = discarded \cup {s}
     ELSE /\ uploadError' = FailureMessage(<<"Failed to delete design">>, o)
          /\ UNCHANGED <<file, preview, uploadName, mockups, pending, uploadedDesign, discarded>>
  /\ deleting' = deleting \ {s}
  /\ lastOutcome' = o
  /\ offered' = NoFile
  /\ UNCHANGED <<isDragging, urls>>
  /\ UNCHANGED <<studioPage, designOnly, isUploading, isActivating, activateOf, slugs>>
  /\ UNCHANGED notHandlerVars

\* The Upload Another button, rendered for a design that is no draft.
UploadAnother ==
  /\ studioPage = "upload"
  /\ uploadedDesign # NoDesign
  /\ ~OffersActions(uploadedDesign)
  /\ resetForm
  /\ offered' = NoFile
  /\ UNCHANGED <<isDragging, urls>>
  /\ UNCHANGED <<studioPage, designOnly, isUploading, isActivating, activateOf,
                 deleting, slugs, discarded, lastOutcome>>
  /\ UNCHANGED notHandlerVars

\* One of the two pages, just mounted.
InitDesign ==
  /\ RequestIdle
  /\ host = Null
  /\ CartIdle
  /\ ThemeIdle
  /\ PageIdle
  /\ FormIdle
  /\ CompositeIdle
  /\ FlagsIdle
  /\ studioPage \in {"design", "upload"}
  /\ designName = <<>>
  /\ concept = <<>>
  /\ generatedDesign = NoDesign
  /\ isGenerating = FALSE
  /\ designError = Null
  /\ uploadedDesign = NoDesign
  /\ isUploading = FALSE
  /\ isActivating = FALSE
  /\ activateOf = NoDesign
  /\ deleting = {}
  /\ slugs = 0
  /\ discarded = {}
  /\ lastOutcome = "none"

NextDesign ==
  \/ \E n \in DesignTexts, c \in DesignTexts : DesignInput(n, c)
  \/ handleGenerate
  \/ \E o \in Outcomes : GenerateDone(o)
  \/ DesignActivate
  \/ \E o \in Outcomes : DesignActivateDone(o)
  \/ DesignDelete
  \/ \E s \in 1..MaxDesigns, o \in Outcomes : DesignDeleteDone(s, o)
  \/ \E f \in PreviewFiles : studioPage = "upload" /\ handleDrop(f)
  \/ studioPage = "upload" /\ RemoveFile
  \/ \E n \in TypedNames : studioPage = "upload" /\ NameInput(n)
  \/ handleUpload
  \/ \E o \in Outcomes : UploadDone(o)
  \/ UploadActivate
  \/ \E o \in Outcomes : UploadActivateDone(o)
  \/ UploadDelete
  \/ \E s \in 1..MaxDesigns, o \in Outcomes : UploadDeleteDone(s, o)
  \/ UploadAnother

DesignSpec == InitDesign /\ [][NextDesign]_vars

\* The design the page shows, and the error it shows.
Shown == IF studioPage = "design" THEN generatedDesign ELSE uploadedDesign
ShownError == IF studioPage = "design" THEN designError ELSE uploadError

\* The step starts, or ends, a handleActivate or a handleDelete call.
ActivateStarts == activateOf = NoDesign /\ activateOf' # NoDesign
ActivateCompletes == activateOf # NoDesign /\ activateOf' = NoDesign
DeleteStarts == deleting \subseteq deleting' /\ deleting' # deleting
DeleteCompletes == deleting' \subseteq deleting /\ deleting' # deleting

\* C27: the shown design goes from draft to active only when an activate
\* request is answered OK; a discard takes the design off the page only when
\* the delete request is answered OK; an activate or delete request that is
\* answered non-OK or throws leaves the shown design as it is and sets an
\* error message; and no activate or discard is started for a design that
\* is not a draft.
C27_StatusFollowsAnswers ==
  [][/\ (Shown.status = "draft" /\ Shown'.status = "active" /\ Shown'.slug = Shown.slug)
          => (ActivateCompletes /\ lastOutcome' = "ok")
     /\ (DeleteCompletes /\ Shown # NoDesign /\ Shown' = NoDesign)
          => lastOutcome' = "ok"
     /\ ((ActivateCompletes \/ DeleteCompletes) /\ lastOutcome' # "ok")
          => (Shown' = Shown /\ ShownError' # Null)
     /\ (ActivateStarts \/ DeleteStarts) => Shown.status = "draft"]_vars

\* A draft has been put in the store by an activate request answered OK.
C27_Witness ==
  /\ Shown.status = "active"
  /\ lastOutcome = "ok"
  /\ ~isActivating

\* C28: the page never shows a design whose discard has succeeded.
C28_DiscardedStaysGone == Shown.slug \notin discarded

----------------------------------------------------------------------------
\* The in-progress flags: each handler sets its flag, waits for the backend,
\* and goes on when the request has settled.

\* The cart variables other than `cart`, and the inputs of the upload form.
cartRest == <<storage, nextCart, mount, addPc, addCartId, addSpace, addResult,
              fetchPc, fetchKey, fetchId, createKey, lookupKey, clearKey,
              checkoutVars>>
formRest == <<file, preview, uploadName, isDragging, urls, mockups, pending>>

\* What the steps of the handlers below leave alone.
flagBase == <<requestVars, renderVars, clientVars, keyVars, themeVars, pageVars,
              compositeVars, cartRest, formRest, shopPage, studioPage,
              designName, concept, deleting, discarded>>

\* How control leaves a try block: at its end, by a return statement, or by
\* a throw that its catch block handles.
Exits == {"normal", "return", "caught"}

\* Variant: a return statement inside try skips the finally block.
RunsFinally_NotOnReturn(exit) == exit # "return"

\* A finally block runs however the try block was left.
RunsFinally(exit) == exit \in Exits

\* The statement after a try/catch is reached unless the try block returned.
RunsNext(exit) == exit # "return"

\* The try block ran to its end unless the awaited request threw.
ExitOf(o) == IF o = "throw" THEN "caught" ELSE "normal"

\* A call of the handler is running; it waits for a request.
Running(h) == calls[h] # NoCall
Awaits(h, r) == calls' = [calls EXCEPT ![h] = [request |-> r, answer |-> "pending"]]
Returns(h) == calls' = [calls EXCEPT ![h] = NoCall]

\* The requests that make the backend create a design.
CreatesDesign == {"POST /design/generate", "POST /design/upload"}

\* The backend answers the request a call waits for (OK, non-OK), or the
\* fetch throws; the call has not gone on yet.
BackendAnswers(h, o) ==
  /\ calls[h].answer = "pending"
  /\ calls' = [calls EXCEPT ![h].answer = o]
  /\ lastOutcome' = o
  /\ IF o = "ok" /\ calls[h].request \in CreatesDesign
     THEN slugs < MaxDesigns /\ slugs' = slugs + 1
     ELSE UNCHANGED slugs
  /\ UNCHANGED <<loading, updating, checkingOut, cart, addingToCart, product,
                 generatedDesign, uploadedDesign, isGenerating, isActivating,
                 isUploading, designError, uploadError, offered, activateOf>>
  /\ UNCHANGED flagBase

\* CartPage's mount effect calls fetchCart: without a stored cart id it makes
\* no request and goes straight to setLoading(false).
FetchCartCalled(stored) ==
  /\ shopPage = "cart"
  /\ loading
  /\ ~Running("fetchCart")
  /\ IF stored
     THEN Awaits("fetchCart", "GET /cart/{id}") /\ UNCHANGED loading
     ELSE loading' = FALSE /\ UNCHANGED calls
  /\ UNCHANGED <<updating, checkingOut, cart, addingToCart, product,
                 generatedDesign, uploadedDesign, isGenerating, isActivating,
                 isUploading, designError, uploadError, offered, slugs,
                 activateOf, lastOutcome>>
  /\ UNCHANGED flagBase

\* fetchCart goes on: the cart is set, or null; setLoading(false) is the
\* statement after the try/catch.
FetchCartResumes ==
  /\ calls["fetchCart"].answer \in Outcomes
  /\ LET o == calls["fetchCart"].answer
     IN  /\ cart' = IF o = "ok" THEN 1 ELSE NoCart
         /\ loading' = IF RunsNext(ExitOf(o)) THEN FALSE ELSE loading
  /\ Returns("fetchCart")
  /\ UNCHANGED <<updating, checkingOut, addingToCart, product,
                 generatedDesign, uploadedDesign, isGenerating, isActivating,
                 isUploading, designError, uploadError, offered, slugs,
                 activateOf, lastOutcome>>
  /\ UNCHANGED flagBase

\* updateQuantity(itemId, newQuantity): the item's buttons are disabled while
\* `updating` is its id.
UpdateQuantityCalled(itemId, newQuantity) ==
  /\ shopPage = "cart"
  /\ cart # NoCart
  /\ newQuantity >= 1
  /\ updating # itemId
  /\ ~Running("updateQuantity")
  /\ updating' = itemId
  /\ Awaits("updateQuantity", "PUT /cart/{id}/items/{item}")
  /\ UNCHANGED <<loading, checkingOut, cart, addingToCart, product,
                 generatedDesign, uploadedDesign, isGenerating, isActivating,
                 isUploading, designError, uploadError, offered, slugs,
                 activateOf, lastOutcome>>
  /\ UNCHANGED flagBase

\* updateQuantity goes on: an OK answer is the cart with its new lines;
\* finally setUpdating(null).
UpdateQuantityResumes ==
  /\ calls["updateQuantity"].answer \in Outcomes
  /\ updating' = IF RunsFinally(ExitOf(calls["updateQuantity"].answer))
                 THEN NoItem ELSE updating
  /\ Returns("updateQuantity")
  /\ UNCHANGED <<loading, checkingOut, cart, addingToCart, product,
                 generatedDesign, uploadedDesign, isGenerating, isActivating,
                 isUploading, designError, uploadError, offered, slugs,
                 activateOf, lastOutcome>>
  /\ UNCHANGED flagBase

\* removeItem(itemId)
RemoveItemCalled(itemId) ==
  /\ shopPage = "cart"
  /\ cart # NoCart
  /\ updating # itemId
  /\ ~Running("removeItem")
  /\ updating' = itemId
  /\ Awaits("removeItem", "DELETE /cart/{id}/items/{item}")
  /\ UNCHANGED <<loading, checkingOut, cart, addingToCart, product,
                 generatedDesign, uploadedDesign, isGenerating, isActivating,
                 isUploading, designError, uploadError, offered, slugs,
                 activateOf, lastOutcome>>
  /\ UNCHANGED flagBase

\* removeItem goes on; finally setUpdating(null).
RemoveItemResumes ==
  /\ calls["removeItem"].answer \in Outcomes
  /\ updating' = IF RunsFinally(ExitOf(calls["removeItem"].answer))
                 THEN NoItem ELSE updating
  /\ Returns("removeItem")
  /\ UNCHANGED <<loading, checkingOut, cart, addingToCart, product,
                 generatedDesign, uploadedDesign, isGenerating, isActivating,
                 isUploading, designError, uploadError, offered, slugs,
                 activateOf, lastOutcome>>
  /\ UNCHANGED flagBase

\* handleCheckout (its button is disabled while checkingOut).
CheckoutCalled ==
  /\ shopPage = "cart"
  /\ cart # NoCart
  /\ ~checkingOut
  /\ ~Running("handleCheckout")
  /\ checkingOut' = TRUE
  /\ Awaits("handleCheckout", "POST /checkout/session")
  /\ UNCHANGED <<loading, updating, cart, addingToCart, product,
                 generatedDesign, uploadedDesign, isGenerating, isActivating,
                 isUploading, designError, uploadError, offered, slugs,
                 activateOf, lastOutcome>>
  /\ UNCHANGED flagBase

\* handleCheckout goes on: it assigns window.location.href or alerts;
\* finally setCheckingOut(false).
CheckoutResumes ==
  /\ calls["handleCheckout"].answer \in Outcomes
  /\ checkingOut' = IF RunsFinally(ExitOf(calls["handleCheckout"].answer))
                    THEN FALSE ELSE checkingOut
  /\ Returns("handleCheckout")
  /\ UNCHANGED <<loading, updating, cart, addingToCart, product,
                 generatedDesign, uploadedDesign, isGenerating, isActivating,
                 isUploading, designError, uploadError, offered, slugs,
                 activateOf, lastOutcome>>
  /\ UNCHANGED flagBase

\* ProductPage's effect calls fetchProduct.
FetchProductCalled ==
  /\ shopPage = "product"
  /\ loading
  /\ product = "null"
  /\ ~Running("fetchProduct")
  /\ Awaits("fetchProduct", "GET /products/{slug}")
  /\ UNCHANGED loading
  /\ UNCHANGED <<loading, updating, checkingOut, cart, addingToCart, product,
                 generatedDesign, uploadedDesign, isGenerating, isActivating,
                 isUploading, designError, uploadError, offered, slugs,
                 activateOf, lastOutcome>>
  /\ UNCHANGED flagBase

\* fetchProduct goes on: a non-OK answer returns from inside the try block,
\* an OK answer sets the product and selects its first variant if it has one;
\* finally setLoading(false).
FetchProductResumes(variants) ==
  /\ calls["fetchProduct"].answer \in Outcomes
  /\ LET o == calls["fetchProduct"].answer
         exit == IF o = "notok" THEN "return" ELSE ExitOf(o)
     IN  /\ product' = IF o = "ok"
                       THEN (IF variants THEN "selected" ELSE "no variant")
                       ELSE product
         /\ loading' = IF RunsFinally(exit) THEN FALSE ELSE loading
  /\ Returns("fetchProduct")
  /\ UNCHANGED <<updating, checkingOut, cart, addingToCart, generatedDesign,
                 uploadedDesign, isGenerating, isActivating, isUploading,
                 designError, uploadError, offered, slugs, activateOf,
                 lastOutcome>>
  /\ UNCHANGED flagBase

\* handleAddToCart (the button is disabled while addingToCart or without a
\* selected variant): getOrCreateCart looks the stored cart up, or creates one.
AddToCartCalled(stored) ==
  /\ shopPage = "product"
  /\ product = "selected"
  /\ ~addingToCart
  /\ ~Running("handleAddToCart")
  /\ addingToCart' = TRUE
  /\ Awaits("handleAddToCart", IF stored THEN "GET /cart/{id}" ELSE "POST /cart")
  /\ UNCHANGED <<loading, updating, checkingOut, cart, product,
                 generatedDesign, uploadedDesign, isGenerating, isActivating,
                 isUploading, designError, uploadError, offered, slugs,
                 activateOf, lastOutcome>>
  /\ UNCHANGED flagBase

\* The call of handleAddToCart sends another request after the one that has
\* settled: a failed lookup is followed by the creation, a cart id by the
\* POST of the item.
SendsAnother(r, o) == r = "GET /cart/{id}" \/ (r = "POST /cart" /\ o = "ok")

\* handleAddToCart goes on: without a cart id it alerts and returns from
\* inside the try block; after the POST of the item it marks the button or
\* alerts; finally setAddingToCart(false).
AddToCartResumes ==
  /\ calls["handleAddToCart"].answer \in Outcomes
  /\ LET r == calls["handleAddToCart"].request
         o == calls["handleAddToCart"].answer
         exit == IF r = "POST /cart" THEN "return" ELSE ExitOf(o)
     IN  IF SendsAnother(r, o)
         THEN /\ Awaits("handleAddToCart",
                        IF o = "ok" THEN "POST /cart/{id}/items" ELSE "POST /cart")
              /\ UNCHANGED addingToCart
         ELSE /\ addingToCart' = IF RunsFinally(exit) THEN FALSE ELSE addingToCart
              /\ Returns("handleAddToCart")
  /\ UNCHANGED <<loading, updating, checkingOut, cart, product,
                 generatedDesign, uploadedDesign, isGenerating, isActivating,
                 isUploading, designError, uploadError, offered, slugs,
                 activateOf, lastOutcome>>
  /\ UNCHANGED flagBase

\* DesignPage.handleGenerate
GenerateCalled ==
  /\ studioPage = "design"
  /\ ~isGenerating
  /\ Truthy(designName)
  /\ Truthy(concept)
  /\ ~Running("handleGenerate")
  /\ isGenerating' = TRUE
  /\ designError' = Null
  /\ generatedDesign' = NoDesign
  /\ Awaits("handleGenerate", "POST /design/generate")
  /\ UNCHANGED <<loading, updating, checkingOut, cart, addingToCart, product,
                 uploadedDesign, isActivating, isUploading, uploadError,
                 offered, slugs, activateOf, lastOutcome>>
  /\ UNCHANGED flagBase

\* handleGenerate goes on: the new design is a draft; finally
\* setIsGenerating(false).
GenerateResumes ==
  /\ calls["handleGenerate"].answer \in Outcomes
  /\ LET o == calls["handleGenerate"].answer
     IN  /\ IF Succeeded(o)
            THEN generatedDesign' = Draft(slugs) /\ UNCHANGED designError
            ELSE /\ designError' = FailureMessage(<<"Failed to generate design">>, o)
                 /\ UNCHANGED generatedDesign
         /\ isGenerating' = IF RunsFinally(IF Succeeded(o) THEN "normal" ELSE "caught")
                            THEN FALSE ELSE isGenerating
  /\ Returns("handleGenerate")
  /\ UNCHANGED <<loading, updating, checkingOut, cart, addingToCart, product,
                 uploadedDesign, isActivating, isUploading, uploadError,
                 offered, slugs, activateOf, lastOutcome>>
  /\ UNCHANGED flagBase

\* UploadPage.handleUpload
UploadCalled ==
  /\ studioPage = "upload"
  /\ uploadedDesign = NoDesign
  /\ ~isUploading
  /\ file # NoFile
  /\ Truthy(uploadName)
  /\ ~Running("handleUpload")
  /\ isUploading' = TRUE
  /\ uploadError' = Null
  /\ offered' = NoFile
  /\ Awaits("handleUpload", "POST /design/upload")
  /\ UNCHANGED <<loading, updating, checkingOut, cart, addingToCart, product,
                 generatedDesign, uploadedDesign, isGenerating, isActivating,
                 designError, slugs, activateOf, lastOutcome>>
  /\ UNCHANGED flagBase

\* handleUpload goes on; finally setIsUploading(false).
UploadResumes ==
  /\ calls["handleUpload"].answer \in Outcomes
  /\ LET o == calls["handleUpload"].answer
     IN  /\ IF Succeeded(o)
            THEN uploadedDesign' = Draft(slugs) /\ UNCHANGED uploadError
            ELSE /\ uploadError' = FailureMessage(<<"Upload failed">>, o)
                 /\ UNCHANGED uploadedDesign
         /\ isUploading' = IF RunsFinally(IF Succeeded(o) THEN "normal" ELSE "caught")
                           THEN FALSE ELSE isUploading
  /\ offered' = NoFile
  /\ Returns("handleUpload")
  /\ UNCHANGED <<loading, updating, checkingOut, cart, addingToCart, product,
                 generatedDesign, isGenerating, isActivating, designError,
                 slugs, activateOf, lastOutcome>>
  /\ UNCHANGED flagBase

\* The design the page shows is generatedDesign or uploadedDesign.
OnDesignPage == studioPage = "design"

\* handleActivate of the page shown (its button is rendered for a draft and
\* disabled while isActivating).
ActivateCalled ==
  /\ studioPage \in {"design", "upload"}
  /\ OffersActions(IF OnDesignPage THEN generatedDesign ELSE uploadedDesign)
  /\ ~isActivating
  /\ ~Running("handleActivate")
  /\ isActivating' = TRUE
  /\ activateOf' = IF OnDesignPage THEN generatedDesign ELSE uploadedDesign
  /\ IF OnDesignPage
     THEN designError' = Null /\ UNCHANGED <<uploadError, offered>>
     ELSE uploadError' = Null /\ offered' = NoFile /\ UNCHANGED designError
  /\ Awaits("handleActivate", "POST /design/{slug}/activate")
  /\ UNCHANGED <<loading, updating, checkingOut, cart, addingToCart, product,
                 generatedDesign, uploadedDesign, isGenerating, isUploading,
                 slugs, lastOutcome>>
  /\ UNCHANGED flagBase

\* handleActivate goes on: the design the call closed over is set with status
\* "active", or the error is shown; finally setIsActivating(false).
ActivateResumes ==
  /\ calls["handleActivate"].answer \in Outcomes
  /\ LET o == calls["handleActivate"].answer
         active == [activateOf EXCEPT !.status = "active"]
         message == FailureMessage(<<"Failed to activate design">>, o)
     IN  /\ generatedDesign' = IF OnDesignPage /\ Succeeded(o)
                               THEN active ELSE generatedDesign
         /\ uploadedDesign' = IF ~OnDesignPage /\ Succeeded(o)
                              THEN active ELSE uploadedDesign
         /\ designError' = IF OnDesignPage /\ ~Succeeded(o)
                           THEN message ELSE designError
         /\ uploadError' = IF ~OnDesignPage /\ ~Succeeded(o)
                           THEN message ELSE uploadError
         /\ isActivating' = IF RunsFinally(IF Succeeded(o) THEN "normal" ELSE "caught")
                            THEN FALSE ELSE isActivating
  /\ offered' = IF OnDesignPage THEN offered ELSE NoFile
  /\ activateOf' = NoDesign
  /\ Returns("handleActivate")
  /\ UNCHANGED <<loading, updating, checkingOut, cart, addingToCart, product,
                 isGenerating, isUploading, slugs, lastOutcome>>
  /\ UNCHANGED flagBase

\* One of the four pages is open and has just been created.
InitFlags ==
  /\ RequestIdle
  /\ host = Null
  /\ CartIdle
  /\ ThemeIdle
  /\ PageIdle
  /\ FormIdle
  /\ CompositeIdle
  /\ \E p \in {"cart", "product", "design", "upload"} :
       /\ shopPage = IF p \in {"cart", "product"} THEN p ELSE "none"
       /\ studioPage = IF p \in {"design", "upload"} THEN p ELSE "none"
  /\ designName = <<>>
  /\ concept = <<>>
  /\ generatedDesign = NoDesign
  /\ isGenerating = FALSE
  /\ designError = Null
  /\ uploadedDesign = NoDesign
  /\ isUploading = FALSE
  /\ isActivating = FALSE
  /\ activateOf = NoDesign
  /\ deleting = {}
  /\ slugs = 0
  /\ discarded = {}
  /\ lastOutcome = "none"
  /\ loading = TRUE
  /\ updating = NoItem
  /\ checkingOut = FALSE
  /\ addingToCart = FALSE
  /\ product = "null"
  /\ calls = [h \in Handlers |-> NoCall]

NextFlags ==
  \/ \E h \in Handlers, o \in Outcomes : BackendAnswers(h, o)
  \/ \E stored \in BOOLEAN : FetchCartCalled(stored)
  \/ FetchCartResumes
  \/ \E itemId \in Items, q \in Quantities : UpdateQuantityCalled(itemId, q)
  \/ UpdateQuantityResumes
  \/ \E itemId \in Items : RemoveItemCalled(itemId)
  \/ RemoveItemResumes
  \/ CheckoutCalled
  \/ CheckoutResumes
  \/ FetchProductCalled
  \/ \E variants \in BOOLEAN : FetchProductResumes(variants)
  \/ \E stored \in BOOLEAN : AddToCartCalled(stored)
  \/ AddToCartResumes
  \/ \E n \in DesignTexts, c \in DesignTexts : DesignInput(n, c)
  \/ GenerateCalled
  \/ GenerateResumes
  \/ \E f \in PreviewFiles : studioPage = "upload" /\ file = NoFile /\ handleDrop(f)
  \/ UploadCalled
  \/ UploadResumes
  \/ ActivateCalled
  \/ ActivateResumes

FlagSpec == InitFlags /\ [][NextFlags]_vars

\* The browser runs the continuation of a call whose await has settled;
\* nothing makes the backend answer, and nothing makes the user click.
FlagFairSpec ==
  /\ FlagSpec
  /\ WF_vars(FetchCartResumes)
  /\ WF_vars(UpdateQuantityResumes)
  /\ WF_vars(RemoveItemResumes)
  /\ WF_vars(CheckoutResumes)
  /\ WF_vars(\E variants \in BOOLEAN : FetchProductResumes(variants))
  /\ WF_vars(AddToCartResumes)
  /\ WF_vars(GenerateResumes)
  /\ WF_vars(UploadResumes)
  /\ WF_vars(ActivateResumes)

\* The last request of the handler's running call has settled: with an OK
\* answer, a non-OK answer or a thrown fetch.
Settled(h) ==
  /\ calls[h].answer \in Outcomes
  /\ ~SendsAnother(calls[h].request, calls[h].answer)

\* The handler's in-progress flag is idle: false, or null for `updating`.
FlagIsIdle(h) ==
  CASE h \in {"fetchCart", "fetchProduct"} -> ~loading
    [] h \in {"updateQuantity", "removeItem"} -> updating = NoItem
    [] h = "handleCheckout" -> ~checkingOut
    [] h = "handleAddToCart" -> ~addingToCart
    [] h = "handleGenerate" -> ~isGenerating
    [] h = "handleActivate" -> ~isActivating
    [] h = "handleUpload" -> ~isUploading

\* C26: for each handler, once the request of its call has settled (OK,
\* non-OK or thrown), its in-progress flag is eventually back to false (null
\* for `updating`).
C26_FlagsReturnToIdle == \A h \in Handlers : Settled(h) ~> FlagIsIdle(h)

\* A product request was answered non-OK, fetchProduct returned from inside
\* its try block, and `loading` is false.
C26_Witness ==
  /\ shopPage = "product"
  /\ lastOutcome = "notok"
  /\ product = "null"
  /\ ~Running("fetchProduct")
  /\ ~loading

====
